---- MODULE Spec2Model ----
(***************************************************************************)
(* Model of sigma_study_v4.py: the auth request of fetch_key_flow, the     *)
(* substring routing, and the three link handlers (nanolinks, arolinks,    *)
(* lksfy) with decrypt and extract_form_data.                              *)
(*                                                                         *)
(* Python str values are sequences of one-character strings, so that       *)
(* substring tests, urlparse, parse_qs and the regular expressions applied *)
(* to URLs are computed character by character.  HTML pages are sequences  *)
(* of elements (one per tag or script statement the regular expressions of *)
(* the handlers can match); re.search returns the leftmost match, i.e. the *)
(* first matching element.  Upstream responses are drawn from small sets.  *)
(***************************************************************************)
EXTENDS Integers, Sequences, FiniteSets, TLC

\* ------------------------------------------------------------- literals
\* Python None where a str may stand (a one-element sequence no str equals).
None == <<"<None>">>

S_nanolinks == <<"n", "a", "n", "o", "l", "i", "n", "k", "s">>
S_arolinks == <<"a", "r", "o", "l", "i", "n", "k", "s">>
S_lksfy == <<"l", "k", "s", "f", "y">>
S_auth_path == <<"/", "a", "p", "i", "/", "v", "1", "/", "a", "u", "t", "h", "/", "g", "e", "n", "e", "r", "a", "t", "e", "?", "s", "e", "r", "v", "e", "r", "=", "1">>
S_nano_first == <<"h", "t", "t", "p", "s", ":", "/", "/", "n", "a", "n", "o", ".", "t", "a", "c", "k", "l", "e", "d", "s", "o", "u", "l", ".", "c", "o", "m", "/", "i", "n", "c", "l", "u", "d", "e", "s", "/", "o", "p", "e", "n", ".", "p", "h", "p", "?", "i", "d", "=">>
S_nano_second == <<"h", "t", "t", "p", "s", ":", "/", "/", "v", "i", "-", "m", "u", "s", "i", "c", ".", "a", "p", "p", "/", "i", "n", "c", "l", "u", "d", "e", "s", "/", "o", "p", "e", "n", ".", "p", "h", "p", "?", "i", "d", "=">>
S_gt_uc == <<"g", "t", "_", "u", "c", "_", "=">>
S_lksfy_origin == <<"h", "t", "t", "p", "s", ":", "/", "/", "l", "k", "s", "f", "y", ".", "c", "o", "m">>
S_lksfy_referer == <<"h", "t", "t", "p", "s", ":", "/", "/", "l", "k", "s", "f", "y", ".", "c", "o", "m", "/">>
S_csrf_cookie == <<"c", "s", "r", "f", "T", "o", "k", "e", "n", "=">>
S_form_ctype == <<"a", "p", "p", "l", "i", "c", "a", "t", "i", "o", "n", "/", "x", "-", "w", "w", "w", "-", "f", "o", "r", "m", "-", "u", "r", "l", "e", "n", "c", "o", "d", "e", "d", ";", " ", "c", "h", "a", "r", "s", "e", "t", "=", "U", "T", "F", "-", "8">>
S_xhr == <<"X", "M", "L", "H", "t", "t", "p", "R", "e", "q", "u", "e", "s", "t">>
S_body_method == <<"_", "m", "e", "t", "h", "o", "d", "=", "P", "O", "S", "T">>
S_body_csrf == <<"&", "_", "c", "s", "r", "f", "T", "o", "k", "e", "n", "=">>
S_body_ad == <<"&", "a", "d", "_", "f", "o", "r", "m", "_", "d", "a", "t", "a", "=">>
S_body_fields == <<"&", "_", "T", "o", "k", "e", "n", "%", "5", "B", "f", "i", "e", "l", "d", "s", "%", "5", "D", "=">>
S_body_unlocked == <<"&", "_", "T", "o", "k", "e", "n", "%", "5", "B", "u", "n", "l", "o", "c", "k", "e", "d", "%", "5", "D", "=">>
S_key_eq == <<"k", "e", "y", "=">>
S_code_eq == <<"c", "o", "d", "e", "=">>
S_key == <<"k", "e", "y">>
S_http == <<"h", "t", "t", "p", ":", "/", "/">>
S_https == <<"h", "t", "t", "p", "s", ":", "/", "/">>
S_user_agent == <<"D", "a", "r", "t", "/", "3", ".", "8", " ", "(", "d", "a", "r", "t", ":", "i", "o", ")">>
U_base == <<"h", "t", "t", "p", "s", ":", "/", "/", "a", "p", "i", ".", "e", "x">>
U_base_slash == <<"h", "t", "t", "p", "s", ":", "/", "/", "a", "p", "i", ".", "e", "x", "/">>
U_nano == <<"h", "t", "t", "p", "s", ":", "/", "/", "n", "a", "n", "o", "l", "i", "n", "k", "s", ".", "i", "n", "/", "A", "b", "C">>
U_aro == <<"h", "t", "t", "p", "s", ":", "/", "/", "a", "r", "o", "l", "i", "n", "k", "s", ".", "c", "o", "m", "/", "x", "y", "z", "/">>
U_lksfy == <<"h", "t", "t", "p", "s", ":", "/", "/", "l", "k", "s", "f", "y", ".", "c", "o", "m", "/", "I", "D">>
U_unknown == <<"h", "t", "t", "p", "s", ":", "/", "/", "u", ".", "e", "x", "/", "I", "D">>
U_upper == <<"h", "t", "t", "p", "s", ":", "/", "/", "A", "R", "O", "L", "I", "N", "K", "S", ".", "c", "o", "m", "/", "a">>
U_nano_aro == <<"h", "t", "t", "p", "s", ":", "/", "/", "a", "r", "o", "l", "i", "n", "k", "s", ".", "c", "o", "m", "/", "n", "a", "n", "o", "l", "i", "n", "k", "s">>
U_aro_lksfy == <<"h", "t", "t", "p", "s", ":", "/", "/", "l", "k", "s", "f", "y", ".", "c", "o", "m", "/", "a", "r", "o", "l", "i", "n", "k", "s">>
U_bracket == <<"h", "t", "t", "p", "s", ":", "/", "/", "[", "l", "k", "s", "f", "y", ".", "c", "o", "m", "/", "x">>

\* ------------------------------------------------------- str operations
Min(S) == CHOOSE x \in S : \A y \in S : x <= y
Max(S) == CHOOSE x \in S : \A y \in S : x >= y

\* sub in s
Contains(s, sub) ==
  \E i \in 1..(Len(s) - Len(sub) + 1) : SubSeq(s, i, i + Len(sub) - 1) = sub

StartsWith(s, pre) == Len(s) >= Len(pre) /\ SubSeq(s, 1, Len(pre)) = pre

\* s.find(c) + 1 for a single character c: 0 when c is not in s
Find(s, c) ==
  LET I == {i \in 1..Len(s) : s[i] = c} IN IF I = {} THEN 0 ELSE Min(I)

\* first index of any character of C, 0 when there is none
FindAny(s, C) ==
  LET I == {i \in 1..Len(s) : s[i] \in C} IN IF I = {} THEN 0 ELSE Min(I)

RECURSIVE LStrip(_, _)
LStrip(s, c) == IF s # <<>> /\ Head(s) = c THEN LStrip(Tail(s), c) ELSE s

RECURSIVE RStrip(_, _)
RStrip(s, c) ==
  IF s # <<>> /\ s[Len(s)] = c THEN RStrip(SubSeq(s, 1, Len(s) - 1), c) ELSE s

Strip(s, c) == RStrip(LStrip(s, c), c)

RECURSIVE Split(_, _)
Split(s, c) ==
  LET i == Find(s, c)
  IN IF i = 0 THEN <<s>>
     ELSE <<SubSeq(s, 1, i - 1)>> \o Split(SubSeq(s, i + 1, Len(s)), c)

\* path.strip("/").split("/")[-1]
LastSegment(path) ==
  LET parts == Split(Strip(path, "/"), "/") IN parts[Len(parts)]

\* if x:  for a str-or-None x
Truthy(x) == x # None /\ x # <<>>

\* ------------------------------------------------------- urllib.parse
SchemeChars ==
  {"a", "b", "c", "d", "e", "f", "g", "h", "i", "j", "k", "l", "m", "n", "o",
   "p", "q", "r", "s", "t", "u", "v", "w", "x", "y", "z", "A", "B", "C", "D",
   "E", "F", "G", "H", "I", "J", "K", "L", "M", "N", "O", "P", "Q", "R", "S",
   "T", "U", "V", "W", "X", "Y", "Z", "0", "1", "2", "3", "4", "5", "6", "7",
   "8", "9", "+", "-", "."}

\* s[:i-1] and s[i+1:] around the place i of a delimiter, i = 0 for none
Before(s, i) == IF i = 0 THEN s ELSE SubSeq(s, 1, i - 1)
After(s, i) == IF i = 0 THEN <<>> ELSE SubSeq(s, i + 1, Len(s))

\* urlsplit: the scheme is split off when the text before the first ":"
\* starts with a letter and holds scheme characters only.  The scheme itself
\* is dropped: no caller reads it.
StripScheme(u) ==
  IF /\ Find(u, ":") > 1
     /\ u[1] \notin {"0", "1", "2", "3", "4", "5", "6", "7", "8", "9",
                     "+", "-", "."}
     /\ \A i \in 1..(Find(u, ":") - 1) : u[i] \in SchemeChars
  THEN After(u, Find(u, ":"))
  ELSE u

\* _splitnetloc(url, 2): the netloc runs up to the first of "/", "?", "#".
NetlocOf(after) ==
  [netloc |-> Before(after, FindAny(after, {"/", "?", "#"})),
   rest   |-> IF FindAny(after, {"/", "?", "#"}) = 0 THEN <<>>
              ELSE SubSeq(after, FindAny(after, {"/", "?", "#"}), Len(after))]

\* urlsplit: a netloc is split off only after "//".
SplitNetloc(url) ==
  IF StartsWith(url, <<"/", "/">>) THEN NetlocOf(SubSeq(url, 3, Len(url)))
  ELSE [netloc |-> <<>>, rest |-> url]

\* urlparse: _splitparams cuts the path at the first ";" of its last segment.
SplitParams(path) ==
  IF \E i \in 1..Len(path) :
       path[i] = ";" /\ \A j \in i..Len(path) : path[j] # "/"
  THEN SubSeq(path, 1,
         Min({i \in 1..Len(path) :
                path[i] = ";" /\ \A j \in i..Len(path) : path[j] # "/"}) - 1)
  ELSE path

\* urlsplit raises ValueError for a netloc with one bracket only (no modelled
\* netloc holds both brackets, whose content urlsplit validates as well); the
\* fragment is already cut off rest, the query starts at the first "?".
UrlParts(netloc, rest) ==
  [raises |-> IF Contains(netloc, <<"[">>) # Contains(netloc, <<"]">>)
              THEN "ValueError" ELSE "",
   bytes  |-> FALSE,
   netloc |-> netloc,
   path   |-> SplitParams(Before(rest, Find(rest, "?"))),
   query  |-> After(rest, Find(rest, "?"))]

UrlSplit(nl) == UrlParts(nl.netloc, Before(nl.rest, Find(nl.rest, "#")))

\* urlparse(u).  raises: "" or the exception type raised.  bytes:
\* urlparse(None) coerces None to an empty bytes URL and returns bytes
\* components.
UrlParse(u) ==
  IF u = None
  THEN [raises |-> "", bytes |-> TRUE, netloc |-> <<>>, path |-> <<>>,
        query |-> <<>>]
  ELSE UrlSplit(SplitNetloc(StripScheme(u)))

\* The percent escapes that occur in the modelled inputs.
PctTable ==
  (<<"4", "1">> :> "A") @@ (<<"2", "B">> :> "+") @@ (<<"2", "6">> :> "&")

\* unquote(s.replace("+", " "))
RECURSIVE Unquote(_)
Unquote(s) ==
  IF s = <<>> THEN <<>>
  ELSE IF Head(s) = "+" THEN <<" ">> \o Unquote(Tail(s))
  ELSE IF Head(s) = "%" /\ Len(s) >= 3 /\ <<s[2], s[3]>> \in DOMAIN PctTable
       THEN <<PctTable[<<s[2], s[3]>>]>> \o Unquote(SubSeq(s, 4, Len(s)))
  ELSE <<Head(s)>> \o Unquote(Tail(s))

\* parse_qs(query).get(name, [None])[0]: fields are split at "&", a field
\* without "=" or with an empty value is dropped, names and values are
\* unquoted, and the first value of the name is taken.
QsFirst(query, name) ==
  LET parts == Split(query, "&")
      Kept(p) == LET e == Find(p, "=")
                 IN e > 0 /\ Len(p) > e /\ Unquote(SubSeq(p, 1, e - 1)) = name
      I == {i \in 1..Len(parts) : Kept(parts[i])}
  IN IF I = {} THEN None
     ELSE LET p == parts[Min(I)]
          IN Unquote(SubSeq(p, Find(p, "=") + 1, Len(p)))

\* re.search(kw + '([^&"]+)', s).group(1), None without a match: the first
\* place where kw is followed by a character other than "&", and the run of
\* characters up to the next "&".  (No modelled string holds a double quote.)
RegexParam(s, kw) ==
  LET n == Len(kw)
      I == {q \in 1..(Len(s) - n) :
              SubSeq(s, q, q + n - 1) = kw /\ s[q + n] # "&"}
  IN IF I = {} THEN None
     ELSE LET rest == SubSeq(s, Min(I) + n, Len(s))
              amp == Find(rest, "&")
          IN IF amp = 0 THEN rest ELSE SubSeq(rest, 1, amp - 1)

\* Whether href matches  https?://[^"]+kw[^"&]+[^"]*  as a whole: a scheme
\* prefix, at least one character, kw, and a character other than "&".
HrefMatches(href, kw) ==
  \E pre \in {S_http, S_https} :
    /\ StartsWith(href, pre)
    /\ \E q \in (Len(pre) + 2)..(Len(href) - Len(kw)) :
         SubSeq(href, q, q + Len(kw) - 1) = kw /\ href[q + Len(kw)] # "&"

\* ------------------------------------------------------------ records
\* An exception or a handler's cause: the exception type, the fixed part of
\* its message and the value formatted into it.
Err(type, msg, arg) == [type |-> type, msg |-> msg, arg |-> arg]
NoErr == Err("None", "", "")

\* An encrypted blob as decrypt sees it: whether the outer and the inner
\* base64 decode succeed, whether the cipher bytes are a whole number of
\* blocks, the alias whose derived key and IV encrypted it, whether the
\* bytes after the message are valid padding, whether the decrypted bytes
\* are UTF-8, and the decrypted bytes: a page (html) or a string (text),
\* followed by the bytes of the padding (pad).
NoCipher ==
  [present |-> FALSE, outer |-> FALSE, inner |-> FALSE, blocks |-> FALSE,
   alias |-> <<>>, padOk |-> FALSE, utf8 |-> FALSE, html |-> <<>>,
   text |-> <<>>, pad |-> <<>>]

\* The str decrypt returns: a page, or a string, or None.
Plain(html, text) == [html |-> html, text |-> text]
NonePlain == Plain(<<>>, None)

\* A parsed JSON body (kind "notjson": the body is not JSON).
NoJson ==
  [kind |-> "notjson", data |-> "absent", hasKeyUrl |-> FALSE,
   keyUrl |-> <<>>, status |-> "<absent>", message |-> "<absent>",
   url |-> NoCipher]

\* One element of an HTML page.
Element(t, url, ct) == [t |-> t, url |-> url, name |-> "", ct |-> ct]
\* An <input name=.. value=..> or <form action=..> of the decrypted page.
Field(name, value) == [t |-> "field", url |-> value, name |-> name, ct |-> NoCipher]

\* A response, or the transport exception raised instead of one.
Response(status, location, body, json) ==
  [exc |-> FALSE, status |-> status, location |-> location, body |-> body,
   json |-> json]
ExcResponse ==
  [exc |-> TRUE, status |-> 0, location |-> None, body |-> <<>>, json |-> NoJson]
NoResponse ==
  [exc |-> FALSE, status |-> 0, location |-> None, body |-> <<>>, json |-> NoJson]

\* A request: session.get / session.post with its per-request cookies and
\* headers (sets of <<name, value>>), allow_redirects and data.  A header
\* whose value is None is not sent.  secs is 0 but for a sleep.
Request(op, url, cookies, headers, follow, data) ==
  [op |-> op, url |-> url, cookies |-> cookies,
   headers |-> {h \in headers : h[2] # None}, follow |-> follow, data |-> data,
   secs |-> 0]
Get(url, cookies, headers, follow) ==
  Request("GET", url, cookies, headers, follow, <<>>)
NoRequest == Request("none", <<>>, {}, {}, FALSE, <<>>)
\* time.sleep(secs), recorded among the requests
SleepSeconds == 5
Sleep == [Request("sleep", <<>>, {}, {}, FALSE, <<>>) EXCEPT !.secs = SleepSeconds]

\* The tuple a handler returns.
KeyResult(key) == [key |-> key, url |-> None, err |-> NoErr]
Failure(url, msg, arg) ==
  [key |-> None, url |-> url, err |-> Err("RuntimeError", msg, arg)]
NoResult == [key |-> None, url |-> None, err |-> NoErr]

\* What the code between two requests does: return a result, let an
\* exception escape, or go on with the next request.
Returns(result) == [kind |-> "return", result |-> result, raised |-> NoErr, next |-> NoRequest]
Raises(err) == [kind |-> "raise", result |-> NoResult, raised |-> err, next |-> NoRequest]
Continues(req) == [kind |-> "continue", result |-> NoResult, raised |-> NoErr, next |-> req]

REDIRECTS == {301, 302, 303, 307, 308}

\* ------------------------------------------------------------- inputs
MaxBodyLen == 2

BaseUrls == {U_base, U_base_slash}

KeyUrls ==
  {U_nano, U_aro, U_lksfy, U_unknown, U_upper, U_nano_aro, U_aro_lksfy,
   U_bracket}

AuthJson(keyUrl) ==
  [NoJson EXCEPT !.kind = "obj", !.data = "dict", !.hasKeyUrl = TRUE,
                 !.keyUrl = keyUrl]
AuthJsons ==
  {NoJson, [NoJson EXCEPT !.kind = "list"], [NoJson EXCEPT !.kind = "obj"],
   [NoJson EXCEPT !.kind = "obj", !.data = "notdict"],
   [NoJson EXCEPT !.kind = "obj", !.data = "dict"]}
  \cup {AuthJson(u) : u \in KeyUrls \cup {None}}
AuthResponses ==
  {ExcResponse}
  \cup {Response(200, None, <<>>, j) : j \in AuthJsons}
  \cup {Response(s, None, <<>>, j) :
          s \in {204, 404, 500}, j \in {NoJson, AuthJson(U_nano)}}
  \cup {Response(300, None, <<>>, AuthJson(U_nano))}

L_share == <<"h", "t", "t", "p", ":", "/", "/", "s", ".", "c", "o", "/", "X", "y", "Z">>
L_deep == <<"h", "t", "t", "p", ":", "/", "/", "s", ".", "c", "o", "/", "a", "/", "b", "/">>
L_params == <<"h", "t", "t", "p", ":", "/", "/", "s", ".", "c", "o", "/", "q", ";", "v">>
L_bracket == <<"h", "t", "t", "p", ":", "/", "/", "[", "s", "/", "x">>
L_final == <<"h", "t", "t", "p", "s", ":", "/", "/", "g", ".", "e", "x", "/", "?", "k", "e", "y", "=", "F", "I", "N", "A", "L">>
L_nokey == <<"h", "t", "t", "p", "s", ":", "/", "/", "g", ".", "e", "x", "/", "?", "k", "=", "1">>
L_emptykey == <<"h", "t", "t", "p", "s", ":", "/", "/", "g", ".", "e", "x", "/", "?", "k", "e", "y", "=">>
L_twokeys == <<"h", "t", "t", "p", "s", ":", "/", "/", "g", ".", "e", "x", "/", "?", "a", "=", "1", "&", "k", "e", "y", "=", "K", "+", "%", "4", "1", "&", "k", "e", "y", "=", "K", "2">>
L_finalbracket == <<"h", "t", "t", "p", "s", ":", "/", "/", "[", "g", "/", "?", "k", "e", "y", "=", "K">>

Redirect(status, location) == Response(status, location, <<>>, NoJson)
NanoResponses1 ==
  {ExcResponse, Redirect(200, L_share), Redirect(304, L_share), Redirect(404, None)}
  \cup {Redirect(302, l) : l \in {None, L_share, L_deep, L_params, L_bracket}}
  \cup {Redirect(307, L_share)}
NanoResponses2 ==
  {ExcResponse, Redirect(200, L_final), Redirect(200, None)}
  \cup {Redirect(302, l) :
          l \in {None, L_final, L_nokey, L_emptykey, L_twokeys, L_finalbracket}}
  \cup {Redirect(301, L_final)}

\* -------------------------------------------------------------- state
VARIABLES
  pc,        \* where the run is: auth, route, <handler>_enter, <handler>_req<n>,
             \* lksfy_sleep, returned (a handler returned), raised
  baseurl,   \* fetch_key_flow's baseurl argument
  session,   \* the session's default headers
  keyUrl,    \* key_url
  calls,     \* the handlers called, in order
  net,       \* the requests issued (and sleeps taken) with their responses
  decs,      \* the calls of decrypt: ciphertext, alias, value returned
  ident,     \* extracted_id / identifier / alias
  pending,   \* the request the handler is about to issue
  result,    \* the tuple the handler returned
  exc,       \* the exception that escaped
  args,      \* main: the parsed flags
  probe,     \* main: the initial request and its response
  stages,    \* main: the functions main has called, in order
  report,    \* main: the messages written with err
  exitCode,  \* main: the exit code of the process, Running before its end
  input,     \* the arguments of a function applied on its own
  output     \* the values it returned, in order

mainVars == <<args, probe, stages, report, exitCode, input, output>>
vars ==
  <<pc, baseurl, session, keyUrl, calls, net, decs, ident, pending, result, exc,
    args, probe, stages, report, exitCode, input, output>>

Exchange(req, resp) == [req |-> req, resp |-> resp]
NoExchange == Exchange(NoRequest, NoResponse)
Running == -1
Args(ssl_bypass, debug) == [ssl_bypass |-> ssl_bypass, debug |-> debug]

\* Nothing of main has run.
NoMain ==
  /\ probe = NoExchange
  /\ stages = <<>>
  /\ report = <<>>
  /\ exitCode = Running
  /\ input = <<>>
  /\ output = <<>>

\* fetch_key_flow is entered and its session made (lines 143-147); main
\* passes DEFAULT_USER_AGENT.
Init ==
  /\ pc = "auth"
  /\ baseurl \in BaseUrls
  /\ session = {<<"User-Agent", S_user_agent>>}
  /\ keyUrl = None
  /\ calls = <<>>
  /\ net = <<>>
  /\ decs = <<>>
  /\ ident = <<>>
  /\ pending = NoRequest
  /\ result = NoResult
  /\ exc = NoErr
  /\ args = Args(FALSE, FALSE)
  /\ NoMain

\* The effect of an outcome on pc, result, exc and pending.
Finish(out, nextPc) ==
  /\ pc' = CASE out.kind = "return" -> "returned"
             [] out.kind = "raise" -> "raised"
             [] OTHER -> nextPc
  /\ result' = out.result
  /\ exc' = out.raised
  /\ pending' = out.next

\* ----------------------------------------------------- fetch_key_flow
\* Response.raise_for_status
RaiseForStatus(status) == 400 <= status /\ status < 600

\* lines 151-168: what the auth response leads to
AuthOutcome(r) ==
  IF r.exc \/ RaiseForStatus(r.status)
  THEN Raises(Err("RuntimeError", "Request 1 failed", ""))
  ELSE IF r.json.kind = "notjson"
  THEN Raises(Err("RuntimeError", "Response1 not JSON", ""))
  ELSE IF ~(r.json.kind = "obj" /\ r.json.data = "dict" /\ r.json.hasKeyUrl)
  THEN Raises(Err("RuntimeError", "keyUrl missing in response1 JSON", ""))
  ELSE Continues(NoRequest)

AuthRequest ==
  /\ pc = "auth"
  /\ \E r \in AuthResponses :
       LET url1 == RStrip(baseurl, "/") \o S_auth_path
           out == AuthOutcome(r)
       IN /\ net' = Append(net, Exchange(Get(url1, {}, {}, TRUE), r))
          /\ keyUrl' = IF out.kind = "continue" THEN r.json.keyUrl ELSE keyUrl
          /\ Finish(out, "route")
  /\ UNCHANGED <<baseurl, session, calls, decs, ident, mainVars>>

\* RoutingDecision with the arolinks test made before the nanolinks test
RoutingDecision_AroFirst(u) ==
  IF Contains(u, S_arolinks) THEN "handle_aro_links"
  ELSE IF Contains(u, S_nanolinks) THEN "handle_nano_links"
  ELSE IF Contains(u, S_lksfy) THEN "handle_lksfy"
  ELSE "handle_nano_links"

\* lines 173-185: the handler the key_url is routed to
RoutingDecision(u) ==
  IF Contains(u, S_nanolinks) THEN "handle_nano_links"
  ELSE IF Contains(u, S_arolinks) THEN "handle_aro_links"
  ELSE IF Contains(u, S_lksfy) THEN "handle_lksfy"
  ELSE "handle_nano_links"

EntryOf(handler) ==
  CASE handler = "handle_nano_links" -> "nano_enter"
    [] handler = "handle_aro_links" -> "aro_enter"
    [] handler = "handle_lksfy" -> "lksfy_enter"

\* A key_url that is not a str (JSON null) makes the first "in" test raise.
Route ==
  /\ pc = "route"
  /\ IF keyUrl = None
     THEN /\ Finish(Raises(Err("TypeError", "argument of type 'NoneType' is not iterable", "")), "route")
          /\ calls' = calls
     ELSE /\ calls' = Append(calls, RoutingDecision(keyUrl))
          /\ Finish(Continues(NoRequest), EntryOf(RoutingDecision(keyUrl)))
  /\ UNCHANGED <<baseurl, session, keyUrl, net, decs, ident, mainVars>>

\* -------------------------------------------------- handle_nano_links
\* lines 201-202, 265-266, 382-383: urlparse(key_url) and the last segment
\* of its path, for each key_url of the model
KeyUrlId ==
  [u \in KeyUrls |->
     [raises |-> UrlParse(u).raises,
      id |-> IF UrlParse(u).raises # "" THEN <<>> ELSE LastSegment(UrlParse(u).path)]]

\* lines 198-210: the id and the first request; urlparse is outside the try
NanoPrepare(u) ==
  LET parsed == UrlParse(u)
      id == LastSegment(parsed.path)
  IN IF parsed.raises # ""
     THEN Raises(Err(parsed.raises, "Invalid IPv6 URL", ""))
     ELSE Continues(Get(S_nano_first \o id, {<<"tp", id>>, <<"open", id>>}, {}, FALSE))

\* what handle_nano_links comes to before its first request
NanoPrepared == [u \in KeyUrls |-> NanoPrepare(u)]

NanoEnter ==
  /\ pc = "nano_enter"
  /\ ident' = IF KeyUrlId[keyUrl].raises # "" THEN ident ELSE KeyUrlId[keyUrl].id
  /\ Finish(NanoPrepared[keyUrl], "nano_req1")
  /\ UNCHANGED <<baseurl, session, keyUrl, calls, net, decs, mainVars>>

\* NanoAfterFirst with the second request built from the id of key_url
NanoAfterFirst_SameId(u, r) ==
  LET parsed == UrlParse(r.location)
      id == LastSegment(UrlParse(u).path)
  IN IF r.exc THEN Returns(Failure(u, "Nanolinks handler failed", ""))
     ELSE IF r.status \notin REDIRECTS
     THEN Returns(Failure(u, "First request did not redirect as expected", ToString(r.status)))
     ELSE IF parsed.raises # "" \/ parsed.bytes
     THEN Returns(Failure(u, "Nanolinks handler failed", ""))
     ELSE Continues(Get(S_nano_second \o id, {<<"tp", id>>, <<"open", id>>}, {}, FALSE))

\* NanoAfterFirst with the first request issued again after a transport
\* failure
NanoAfterFirst_Retry(u, r) ==
  IF r.exc
  THEN Continues(Get(S_nano_first \o LastSegment(UrlParse(u).path),
                     {<<"tp", LastSegment(UrlParse(u).path)>>,
                      <<"open", LastSegment(UrlParse(u).path)>>}, {}, FALSE))
  ELSE IF r.status \notin REDIRECTS
  THEN Returns(Failure(u, "First request did not redirect as expected", ToString(r.status)))
  ELSE IF UrlParse(r.location).raises # "" \/ UrlParse(r.location).bytes
  THEN Returns(Failure(u, "Nanolinks handler failed", ""))
  ELSE Continues(Get(S_nano_second \o LastSegment(UrlParse(r.location).path),
                     {<<"tp", LastSegment(UrlParse(r.location).path)>>,
                      <<"open", LastSegment(UrlParse(r.location).path)>>}, {}, FALSE))

\* lines 213-233, 253-256: after the first response
NanoAfterFirst(u, r) ==
  LET parsed == UrlParse(r.location)
      new_id == LastSegment(parsed.path)
  IN IF r.exc THEN Returns(Failure(u, "Nanolinks handler failed", ""))
     ELSE IF r.status \notin REDIRECTS
     THEN Returns(Failure(u, "First request did not redirect as expected", ToString(r.status)))
     ELSE IF parsed.raises # "" \/ parsed.bytes
     THEN Returns(Failure(u, "Nanolinks handler failed", ""))
     ELSE Continues(Get(S_nano_second \o new_id,
                        {<<"tp", new_id>>, <<"open", new_id>>}, {}, FALSE))

NanoRequest1 ==
  /\ pc = "nano_req1"
  /\ \E r \in NanoResponses1 :
       /\ net' = Append(net, Exchange(pending, r))
       /\ Finish(NanoAfterFirst(keyUrl, r), "nano_req2")
  /\ UNCHANGED <<baseurl, session, keyUrl, calls, decs, ident, mainVars>>

\* NanoAfterSecond without the test of the second status
NanoAfterSecond_AnyStatus(u, r) ==
  LET parsed == UrlParse(r.location)
      key == IF parsed.bytes THEN None ELSE QsFirst(parsed.query, S_key)
  IN IF r.exc THEN Returns(Failure(u, "Nanolinks handler failed", ""))
     ELSE IF parsed.raises # ""
     THEN Returns(Failure(u, "Nanolinks handler failed", ""))
     ELSE IF Truthy(key) THEN Returns(KeyResult(key))
     ELSE Returns(Failure(u, "Could not extract 'key' parameter from final redirect URL", ""))

\* lines 235-252, 255-256: after the second response
NanoAfterSecond(u, r) ==
  LET parsed == UrlParse(r.location)
      key == IF parsed.bytes THEN None ELSE QsFirst(parsed.query, S_key)
  IN IF r.exc THEN Returns(Failure(u, "Nanolinks handler failed", ""))
     ELSE IF r.status \notin REDIRECTS
     THEN Returns(Failure(u, "Second request did not redirect as expected", ToString(r.status)))
     ELSE IF parsed.raises # ""
     THEN Returns(Failure(u, "Nanolinks handler failed", ""))
     ELSE IF Truthy(key) THEN Returns(KeyResult(key))
     ELSE Returns(Failure(u, "Could not extract 'key' parameter from final redirect URL", ""))

NanoRequest2 ==
  /\ pc = "nano_req2"
  /\ \E r \in NanoResponses2 :
       /\ net' = Append(net, Exchange(pending, r))
       /\ Finish(NanoAfterSecond(keyUrl, r), "returned")
  /\ UNCHANGED <<baseurl, session, keyUrl, calls, decs, ident, mainVars>>

\* --------------------------------------------------- handle_aro_links
Bodies(elements) == UNION {[1..n -> elements] : n \in 0..MaxBodyLen}
NoElement == Element("none", <<>>, NoCipher)
Text == Element("text", <<>>, NoCipher)

\* re.search: the leftmost match, i.e. the element at the first of the
\* matching places, NoElement if there is none.
FirstElement(body, places) ==
  IF places = {} THEN NoElement ELSE body[Min(places)]

\* "js": window.location.href = "url";  "a": <a href="url">;
\* "rela": <a rel="nofollow noopener noreferrer" href="url">
R_js == <<"h", "t", "t", "p", "s", ":", "/", "/", "r", ".", "e", "x", "/", "j", "s">>
R_a == <<"h", "t", "t", "p", "s", ":", "/", "/", "r", ".", "e", "x", "/", "a">>
H_key == <<"h", "t", "t", "p", "s", ":", "/", "/", "t", ".", "e", "x", "/", "?", "k", "e", "y", "=", "K", "1">>
H_code == <<"h", "t", "t", "p", "s", ":", "/", "/", "t", ".", "e", "x", "/", "?", "c", "o", "d", "e", "=", "C", "1">>
H_both == <<"h", "t", "t", "p", ":", "/", "/", "t", ".", "e", "x", "/", "?", "c", "o", "d", "e", "=", "C", "2", "&", "k", "e", "y", "=", "K", "2">>
H_emptykey == <<"h", "t", "t", "p", "s", ":", "/", "/", "t", ".", "e", "x", "/", "?", "k", "e", "y", "=", "&", "c", "o", "d", "e", "=", "C", "3">>

AroElements1 ==
  {Element("js", R_js, NoCipher), Element("js", <<>>, NoCipher),
   Element("a", R_a, NoCipher), Text}
AroElements2 ==
  {Element("rela", H_key, NoCipher), Element("rela", H_code, NoCipher),
   Element("rela", H_both, NoCipher), Element("rela", H_emptykey, NoCipher),
   Element("a", H_key, NoCipher)}

Page(status, body) == Response(status, None, body, NoJson)
AroResponses1 ==
  {ExcResponse, Page(404, <<Element("js", R_js, NoCipher)>>)}
  \cup {Page(200, b) : b \in Bodies(AroElements1)}
AroResponses2 ==
  {ExcResponse, Page(403, <<Element("rela", H_key, NoCipher)>>)}
  \cup {Page(200, b) : b \in Bodies(AroElements2)}

\* AroPrepare with the cookie header of the second request already on the
\* first
AroPrepare_CookieOnFirst(u) ==
  LET parsed == UrlParse(u)
  IN IF parsed.raises # ""
     THEN Raises(Err(parsed.raises, "Invalid IPv6 URL", ""))
     ELSE Continues(Get(u, {}, {<<"cookie", S_gt_uc \o LastSegment(parsed.path)>>}, TRUE))

\* lines 262-270: the identifier and the first request; urlparse is outside
\* the try
AroPrepare(u) ==
  LET parsed == UrlParse(u)
  IN IF parsed.raises # ""
     THEN Raises(Err(parsed.raises, "Invalid IPv6 URL", ""))
     ELSE Continues(Get(u, {}, {}, TRUE))

\* what handle_aro_links comes to before its first request
AroPrepared == [u \in KeyUrls |-> AroPrepare(u)]

AroEnter ==
  /\ pc = "aro_enter"
  /\ ident' = IF KeyUrlId[keyUrl].raises # "" THEN ident ELSE KeyUrlId[keyUrl].id
  /\ Finish(AroPrepared[keyUrl], "aro_req1")
  /\ UNCHANGED <<baseurl, session, keyUrl, calls, net, decs, mainVars>>

\* AroRedirectUrl with the <a href> tried before the script assignment
AroRedirectUrl_AnchorFirst(body) ==
  LET js == FirstElement(body, {i \in DOMAIN body : body[i].t = "js" /\ body[i].url # <<>>})
      a == FirstElement(body, {i \in DOMAIN body : body[i].t = "a" /\ body[i].url # <<>>})
  IN IF a # NoElement THEN a.url
     ELSE IF js # NoElement THEN js.url
     ELSE None

\* lines 277-284: the redirect URL in the first page, None if there is none
AroRedirectUrl(body) ==
  LET js == FirstElement(body, {i \in DOMAIN body : body[i].t = "js" /\ body[i].url # <<>>})
      a == FirstElement(body, {i \in DOMAIN body : body[i].t = "a" /\ body[i].url # <<>>})
  IN IF js # NoElement THEN js.url
     ELSE IF a # NoElement THEN a.url
     ELSE None

\* lines 271-295, 322-327: after the first response
AroAfterFirst(u, identifier, r) ==
  IF r.exc THEN Returns(Failure(u, "Arolinks handler failed", ""))
  ELSE IF r.status # 200
  THEN Returns(Failure(u, "Initial request failed with status code", ToString(r.status)))
  ELSE IF AroRedirectUrl(r.body) = None
  THEN Returns(Failure(u, "Redirect URL not found in the initial response", ""))
  ELSE Continues(Get(u, {},
                     {<<"cookie", S_gt_uc \o identifier>>,
                      <<"referer", AroRedirectUrl(r.body)>>}, TRUE))

AroRequest1 ==
  /\ pc = "aro_req1"
  /\ \E r \in AroResponses1 :
       /\ net' = Append(net, Exchange(pending, r))
       /\ Finish(AroAfterFirst(keyUrl, ident, r), "aro_req2")
  /\ UNCHANGED <<baseurl, session, keyUrl, calls, decs, ident, mainVars>>

\* AroFinalKey with the code= anchor tried before the key= anchor
AroFinalKey_CodeFirst(body) ==
  LET final_url_match ==
        FirstElement(body, {i \in DOMAIN body :
                             body[i].t = "rela" /\ HrefMatches(body[i].url, S_key_eq)})
      final_url_match2 ==
        FirstElement(body, {i \in DOMAIN body :
                             body[i].t = "rela" /\ HrefMatches(body[i].url, S_code_eq)})
  IN IF final_url_match2 # NoElement
     THEN RegexParam(final_url_match2.url, S_code_eq)
     ELSE IF final_url_match # NoElement
     THEN RegexParam(final_url_match.url, S_key_eq)
     ELSE None

\* lines 300-319: the key in the second page, None if there is none
AroFinalKey(body) ==
  LET final_url_match ==
        FirstElement(body, {i \in DOMAIN body :
                             body[i].t = "rela" /\ HrefMatches(body[i].url, S_key_eq)})
      final_url_match2 ==
        FirstElement(body, {i \in DOMAIN body :
                             body[i].t = "rela" /\ HrefMatches(body[i].url, S_code_eq)})
  IN IF final_url_match # NoElement
     THEN RegexParam(final_url_match.url, S_key_eq)
     ELSE IF final_url_match2 # NoElement
     THEN RegexParam(final_url_match2.url, S_code_eq)
     ELSE None

\* lines 295-321, 326-327: after the second response
AroAfterSecond(u, r) ==
  IF r.exc THEN Returns(Failure(u, "Arolinks handler failed", ""))
  ELSE IF r.status # 200
  THEN Returns(Failure(u, "Second request failed with status code", ToString(r.status)))
  ELSE IF AroFinalKey(r.body) # None THEN Returns(KeyResult(AroFinalKey(r.body)))
  ELSE Returns(Failure(u, "Final URL with key/code not found in the second response", ""))

AroRequest2 ==
  /\ pc = "aro_req2"
  /\ \E r \in AroResponses2 :
       /\ net' = Append(net, Exchange(pending, r))
       /\ Finish(AroAfterSecond(keyUrl, r), "returned")
  /\ UNCHANGED <<baseurl, session, keyUrl, calls, decs, ident, mainVars>>

\* ---------------------------------------------------------- decrypt
\* lines 330-344.  Both base64 decodes, the cipher's check of the block
\* length and the UTF-8 decode raise on failure, and every exception gives
\* None.  Decrypting under another alias than the one the blob was
\* encrypted under gives bytes that are not UTF-8.  The cipher call removes
\* no padding and checks none: the bytes after the message stay in the
\* value returned.
Decrypt(ct, alias) ==
  IF ~ct.outer \/ ~ct.inner THEN NonePlain
  ELSE IF ~ct.blocks THEN NonePlain
  ELSE IF ct.alias # alias \/ ~ct.utf8 THEN NonePlain
  ELSE Plain(ct.html, ct.text \o ct.pad)

\* if decrypted:  for the value decrypt returned
PlainTruthy(p) == p # NonePlain /\ (p.html # <<>> \/ p.text # <<>>)

\* ------------------------------------------------- extract_form_data
\* lines 346-373: each field is the value of the first tag with that name
\* and a non-empty value, "" if there is none
FieldValue(html, name) ==
  FirstElement(html, {i \in DOMAIN html :
                        /\ html[i].t = "field" /\ html[i].name = name
                        /\ html[i].url # <<>>}).url

ExtractFormData(html) ==
  [csrf_token |-> FieldValue(html, "_csrfToken"),
   ad_form_data |-> FieldValue(html, "ad_form_data"),
   token_fields |-> FieldValue(html, "_Token[fields]"),
   token_unlocked |-> FieldValue(html, "_Token[unlocked]"),
   action |-> FieldValue(html, "action")]

\* urllib.parse.quote(s): letters, digits and _.-~/ are kept, any other
\* character becomes its percent escape (those of the modelled inputs).
QuoteTable ==
  (" " :> <<"%", "2", "0">>) @@ ("+" :> <<"%", "2", "B">>) @@ ("=" :> <<"%", "3", "D">>)
  @@ (":" :> <<"%", "3", "A">>) @@ ("%" :> <<"%", "2", "5">>) @@ ("&" :> <<"%", "2", "6">>)

RECURSIVE Quote(_)
Quote(s) ==
  IF s = <<>> THEN <<>>
  ELSE (IF Head(s) \in DOMAIN QuoteTable THEN QuoteTable[Head(s)] ELSE <<Head(s)>>)
       \o Quote(Tail(s))

\* ------------------------------------------------------ handle_lksfy
Alias_ID == <<"I", "D">>
Alias_other == <<"Z", "Z">>
Pad5 == <<"<05>", "<05>", "<05>", "<05>", "<05>">>

FullForm ==
  <<Field("_csrfToken", <<"t", "+", "k">>), Field("ad_form_data", <<"a", "=", "b">>),
    Field("_Token[fields]", <<"f", "%", "3", "A", "1">>), Field("_Token[unlocked]", <<"u", ":", "v">>),
    Field("action", <<"/", "l", "i", "n", "k", "s", "/", "g", "o">>)>>
PartialForm ==
  <<Field("_csrfToken", <<>>), Field("ad_form_data", <<"a", "=", "b">>)>>

FormFieldNames ==
  {"_csrfToken", "ad_form_data", "_Token[fields]", "_Token[unlocked]", "action"}
\* the page holding the fields of FullForm named in names only
SubsetForm(names) == SelectSeq(FullForm, LAMBDA f : f.name \in names)

HtmlCipher(html, pad) ==
  [NoCipher EXCEPT !.present = TRUE, !.outer = TRUE, !.inner = TRUE,
                   !.blocks = TRUE, !.alias = Alias_ID, !.padOk = TRUE,
                   !.utf8 = TRUE, !.html = html, !.pad = pad]
UrlCipher(text, pad) ==
  [NoCipher EXCEPT !.present = TRUE, !.outer = TRUE, !.inner = TRUE,
                   !.blocks = TRUE, !.alias = Alias_ID, !.padOk = TRUE,
                   !.utf8 = TRUE, !.text = text, !.pad = pad]

\* The ways a blob can be broken.
Broken(ct) ==
  {[ct EXCEPT !.outer = FALSE], [ct EXCEPT !.inner = FALSE],
   [ct EXCEPT !.blocks = FALSE], [ct EXCEPT !.alias = Alias_other],
   [ct EXCEPT !.utf8 = FALSE]}
BadPadding(ct) == [ct EXCEPT !.padOk = FALSE, !.pad = <<"z">>]

HtmlCiphers ==
  {HtmlCipher(FullForm, Pad5), HtmlCipher(PartialForm, Pad5),
   HtmlCipher(<<>>, Pad5), HtmlCipher(<<>>, <<>>),
   BadPadding(HtmlCipher(FullForm, Pad5))}
  \cup Broken(HtmlCipher(FullForm, Pad5))

T_key_mid == <<"h", "t", "t", "p", "s", ":", "/", "/", "g", ".", "e", "x", "/", "?", "k", "e", "y", "=", "K", "9", "&", "x", "=", "1">>
T_key_last == <<"h", "t", "t", "p", "s", ":", "/", "/", "g", ".", "e", "x", "/", "?", "k", "e", "y", "=", "K", "8">>
T_nokey == <<"h", "t", "t", "p", "s", ":", "/", "/", "g", ".", "e", "x", "/", "?", "k", "=", "1">>

UrlCiphers ==
  {UrlCipher(T_key_mid, Pad5), UrlCipher(T_key_last, Pad5),
   UrlCipher(T_nokey, Pad5), UrlCipher(<<>>, <<>>),
   BadPadding(UrlCipher(T_key_mid, Pad5))}
  \cup Broken(UrlCipher(T_key_mid, Pad5))

\* "b64": var base64 = 'ct'  (ct absent: an empty value, which [^']+ does
\* not match)
LksfyElements ==
  {Element("b64", <<>>, HtmlCipher(FullForm, Pad5)),
   Element("b64", <<>>, HtmlCipher(PartialForm, Pad5)),
   Element("b64", <<>>, NoCipher), Text}
\* a page for every blob of the model
CipherPages == {Page(200, <<Element("b64", <<>>, c)>>) : c \in HtmlCiphers}

PostJson(status, message, url) ==
  [NoJson EXCEPT !.kind = "obj", !.status = status, !.message = message, !.url = url]
PostJsons ==
  {NoJson, [NoJson EXCEPT !.kind = "list"],
   PostJson("error", "Bad Request", NoCipher),
   PostJson("error", "<absent>", UrlCipher(T_key_mid, Pad5)),
   PostJson("<absent>", "<absent>", UrlCipher(T_key_mid, Pad5)),
   PostJson("success", "<absent>", NoCipher)}
  \cup {PostJson("success", "<absent>", c) : c \in UrlCiphers}

L_lksfy == <<"h", "t", "t", "p", "s", ":", "/", "/", "l", "k", "s", "f", "y", ".", "c", "o", "m", "/", "g", "o">>
LksfyResponses1 ==
  {ExcResponse, Redirect(200, L_lksfy), Redirect(302, L_lksfy),
   Redirect(302, None), Redirect(308, L_lksfy)}
\* a page for every subset of the five form fields
SubsetPages ==
  {Page(200, <<Element("b64", <<>>, HtmlCipher(SubsetForm(names), Pad5))>>) :
     names \in SUBSET FormFieldNames}
LksfyResponses2 ==
  {ExcResponse, Page(404, <<Element("b64", <<>>, HtmlCipher(FullForm, Pad5))>>)}
  \cup {Page(200, b) : b \in Bodies(LksfyElements)}
  \cup CipherPages
  \cup SubsetPages
LksfyResponses3 ==
  {ExcResponse, Response(500, None, <<>>, PostJson("success", "<absent>", UrlCipher(T_key_mid, Pad5)))}
  \cup {Response(200, None, <<>>, j) : j \in PostJsons}

\* lines 379-387: the alias and the first request; urlparse is outside the
\* try
LksfyPrepare(u) ==
  LET parsed == UrlParse(u)
  IN IF parsed.raises # ""
     THEN Raises(Err(parsed.raises, "Invalid IPv6 URL", ""))
     ELSE Continues(Get(u, {}, {<<"referer", u>>}, FALSE))

\* what handle_lksfy comes to before its first request
LksfyPrepared == [u \in KeyUrls |-> LksfyPrepare(u)]

LksfyEnter ==
  /\ pc = "lksfy_enter"
  /\ ident' = IF KeyUrlId[keyUrl].raises # "" THEN ident ELSE KeyUrlId[keyUrl].id
  /\ Finish(LksfyPrepared[keyUrl], "lksfy_req1")
  /\ UNCHANGED <<baseurl, session, keyUrl, calls, net, decs, mainVars>>

\* lines 388-400, 481-484: after the first response
LksfyAfterFirst(u, r) ==
  IF r.exc THEN Returns(Failure(u, "Lksfy handler failed", ""))
  ELSE IF r.status \notin REDIRECTS
  THEN Returns(Failure(u, "First request did not redirect as expected", ToString(r.status)))
  ELSE Continues(Get(u, {}, {<<"referer", r.location>>}, TRUE))

LksfyRequest1 ==
  /\ pc = "lksfy_req1"
  /\ \E r \in LksfyResponses1 :
       /\ net' = Append(net, Exchange(pending, r))
       /\ Finish(LksfyAfterFirst(keyUrl, r), "lksfy_req2")
  /\ UNCHANGED <<baseurl, session, keyUrl, calls, decs, ident, mainVars>>

\* line 405: the blob in the second page, NoCipher if there is none
LksfyBase64(body) ==
  FirstElement(body, {i \in DOMAIN body :
                        body[i].t = "b64" /\ body[i].ct.present}).ct

\* lines 419-435: the POST built from the form data
LksfyPostRequest(form_data) ==
  Request("POST", S_lksfy_origin \o form_data.action, {},
          {<<"content-type", S_form_ctype>>,
           <<"referer", S_lksfy_referer>>,
           <<"cookie", S_csrf_cookie \o form_data.csrf_token>>,
           <<"x-requested-with", S_xhr>>},
          TRUE,
          S_body_method
          \o S_body_csrf \o Quote(form_data.csrf_token)
          \o S_body_ad \o Quote(form_data.ad_form_data)
          \o S_body_fields \o form_data.token_fields
          \o S_body_unlocked \o Quote(form_data.token_unlocked))

\* LksfyAfterSecond going on to the POST whatever decrypt returned
LksfyAfterSecond_NoDecryptTest(u, alias, r) ==
  LET base64_value == LksfyBase64(r.body)
      decrypted_html == Decrypt(base64_value, alias)
  IN IF r.exc THEN Returns(Failure(u, "Lksfy handler failed", ""))
     ELSE IF r.status # 200
     THEN Returns(Failure(u, "Second GET request failed with status code", ToString(r.status)))
     ELSE IF ~base64_value.present
     THEN Returns(Failure(u, "Base64 value not found in the HTML", ""))
     ELSE Continues(LksfyPostRequest(ExtractFormData(decrypted_html.html)))

\* LksfyAfterSecond giving up when the page has no form action
LksfyAfterSecond_ActionRequired(u, alias, r) ==
  LET base64_value == LksfyBase64(r.body)
      decrypted_html == Decrypt(base64_value, alias)
  IN IF r.exc THEN Returns(Failure(u, "Lksfy handler failed", ""))
     ELSE IF r.status # 200
     THEN Returns(Failure(u, "Second GET request failed with status code", ToString(r.status)))
     ELSE IF ~base64_value.present
     THEN Returns(Failure(u, "Base64 value not found in the HTML", ""))
     ELSE IF ~PlainTruthy(decrypted_html)
     THEN Returns(Failure(u, "Failed to decrypt the base64 value", ""))
     ELSE IF ExtractFormData(decrypted_html.html).action = <<>>
     THEN Returns(Failure(u, "Form action not found", ""))
     ELSE Continues(LksfyPostRequest(ExtractFormData(decrypted_html.html)))

\* lines 400-437, 475-480, 483-484: after the second response
LksfyAfterSecond(u, alias, r) ==
  LET base64_value == LksfyBase64(r.body)
      decrypted_html == Decrypt(base64_value, alias)
  IN IF r.exc THEN Returns(Failure(u, "Lksfy handler failed", ""))
     ELSE IF r.status # 200
     THEN Returns(Failure(u, "Second GET request failed with status code", ToString(r.status)))
     ELSE IF ~base64_value.present
     THEN Returns(Failure(u, "Base64 value not found in the HTML", ""))
     ELSE IF ~PlainTruthy(decrypted_html)
     THEN Returns(Failure(u, "Failed to decrypt the base64 value", ""))
     ELSE Continues(LksfyPostRequest(ExtractFormData(decrypted_html.html)))

\* The call of decrypt made after response r, if one is made.
DecryptCall(ct, alias) == [ct |-> ct, alias |-> alias, out |-> Decrypt(ct, alias)]

LksfyRequest2 ==
  /\ pc = "lksfy_req2"
  /\ \E r \in LksfyResponses2 :
       /\ net' = Append(net, Exchange(pending, r))
       /\ decs' = IF ~r.exc /\ r.status = 200 /\ LksfyBase64(r.body).present
                  THEN Append(decs, DecryptCall(LksfyBase64(r.body), ident))
                  ELSE decs
       /\ Finish(LksfyAfterSecond(keyUrl, ident, r), "lksfy_sleep")
  /\ UNCHANGED <<baseurl, session, keyUrl, calls, ident, mainVars>>

\* lines 440-441: time.sleep(5)
LksfySleep ==
  /\ pc = "lksfy_sleep"
  /\ net' = Append(net, Exchange(Sleep, NoResponse))
  /\ pc' = "lksfy_post"
  /\ UNCHANGED <<baseurl, session, keyUrl, calls, decs, ident, pending, result, exc, mainVars>>

\* Whether the code after the POST response reaches decrypt (line 455).
PostReachesDecrypt(r) ==
  /\ ~r.exc /\ r.status = 200
  /\ r.json.kind = "obj" /\ r.json.status = "success" /\ r.json.url.present

\* LksfyAfterPost without the test of the JSON status field
LksfyAfterPost_NoStatusTest(u, alias, r) ==
  LET decrypted_url == Decrypt(r.json.url, alias)
      key == RegexParam(decrypted_url.text, S_key_eq)
  IN IF r.exc THEN Returns(Failure(u, "Lksfy handler failed", ""))
     ELSE IF r.status # 200
     THEN Returns(Failure(u, "POST request failed with status code", ToString(r.status)))
     ELSE IF r.json.kind # "obj"
     THEN Returns(Failure(u, "Error parsing JSON response", ""))
     ELSE IF ~r.json.url.present
     THEN Returns(Failure(u, "Error parsing JSON response", ""))
     ELSE IF ~PlainTruthy(decrypted_url)
     THEN Returns(Failure(u, "Failed to decrypt the URL", ""))
     ELSE IF key # None THEN Returns(KeyResult(key))
     ELSE Returns(Failure(u, "Key not found in the URL", ""))

\* lines 444-474, 483-484: after the POST response.  A body that is not
\* JSON, a JSON value without .get and a url that cannot be sliced raise
\* inside the inner try.
LksfyAfterPost(u, alias, r) ==
  LET decrypted_url == Decrypt(r.json.url, alias)
      key == RegexParam(decrypted_url.text, S_key_eq)
  IN IF r.exc THEN Returns(Failure(u, "Lksfy handler failed", ""))
     ELSE IF r.status # 200
     THEN Returns(Failure(u, "POST request failed with status code", ToString(r.status)))
     ELSE IF r.json.kind # "obj"
     THEN Returns(Failure(u, "Error parsing JSON response", ""))
     ELSE IF r.json.status # "success"
     THEN Returns(Failure(u, "Error in response",
                          IF r.json.message = "<absent>" THEN "None" ELSE r.json.message))
     ELSE IF ~r.json.url.present
     THEN Returns(Failure(u, "Error parsing JSON response", ""))
     ELSE IF ~PlainTruthy(decrypted_url)
     THEN Returns(Failure(u, "Failed to decrypt the URL", ""))
     ELSE IF key # None THEN Returns(KeyResult(key))
     ELSE Returns(Failure(u, "Key not found in the URL", ""))

LksfyPost ==
  /\ pc = "lksfy_post"
  /\ \E r \in LksfyResponses3 :
       /\ net' = Append(net, Exchange(pending, r))
       /\ decs' = IF PostReachesDecrypt(r)
                  THEN Append(decs, DecryptCall(r.json.url, ident))
                  ELSE decs
       /\ Finish(LksfyAfterPost(keyUrl, ident, r), "returned")
  /\ UNCHANGED <<baseurl, session, keyUrl, calls, ident, mainVars>>

\* --------------------------------------------------- bytes and chars
\* chr(b) for a byte b is Chr[b + 1]: the printable ASCII characters stand
\* for themselves (but the grave accent), every other code point below 256
\* is written <XX>.
Chr ==
  <<"<00>", "<01>", "<02>", "<03>", "<04>", "<05>", "<06>", "<07>", "<08>",
    "<09>", "<0A>", "<0B>", "<0C>", "<0D>", "<0E>", "<0F>", "<10>", "<11>",
    "<12>", "<13>", "<14>", "<15>", "<16>", "<17>", "<18>", "<19>", "<1A>",
    "<1B>", "<1C>", "<1D>", "<1E>", "<1F>", " ", "!", "\"", "#", "$", "%",
    "&", "'", "(", ")", "*", "+", ",", "-", ".", "/", "0", "1", "2", "3",
    "4", "5", "6", "7", "8", "9", ":", ";", "<", "=", ">", "?", "@", "A",
    "B", "C", "D", "E", "F", "G", "H", "I", "J", "K", "L", "M", "N", "O",
    "P", "Q", "R", "S", "T", "U", "V", "W", "X", "Y", "Z", "[", "\\", "]",
    "^", "_", "<60>", "a", "b", "c", "d", "e", "f", "g", "h", "i", "j", "k",
    "l", "m", "n", "o", "p", "q", "r", "s", "t", "u", "v", "w", "x", "y",
    "z", "{", "|", "}", "~", "<7F>", "<80>", "<81>", "<82>", "<83>", "<84>",
    "<85>", "<86>", "<87>", "<88>", "<89>", "<8A>", "<8B>", "<8C>", "<8D>",
    "<8E>", "<8F>", "<90>", "<91>", "<92>", "<93>", "<94>", "<95>", "<96>",
    "<97>", "<98>", "<99>", "<9A>", "<9B>", "<9C>", "<9D>", "<9E>", "<9F>",
    "<A0>", "<A1>", "<A2>", "<A3>", "<A4>", "<A5>", "<A6>", "<A7>", "<A8>",
    "<A9>", "<AA>", "<AB>", "<AC>", "<AD>", "<AE>", "<AF>", "<B0>", "<B1>",
    "<B2>", "<B3>", "<B4>", "<B5>", "<B6>", "<B7>", "<B8>", "<B9>", "<BA>",
    "<BB>", "<BC>", "<BD>", "<BE>", "<BF>", "<C0>", "<C1>", "<C2>", "<C3>",
    "<C4>", "<C5>", "<C6>", "<C7>", "<C8>", "<C9>", "<CA>", "<CB>", "<CC>",
    "<CD>", "<CE>", "<CF>", "<D0>", "<D1>", "<D2>", "<D3>", "<D4>", "<D5>",
    "<D6>", "<D7>", "<D8>", "<D9>", "<DA>", "<DB>", "<DC>", "<DD>", "<DE>",
    "<DF>", "<E0>", "<E1>", "<E2>", "<E3>", "<E4>", "<E5>", "<E6>", "<E7>",
    "<E8>", "<E9>", "<EA>", "<EB>", "<EC>", "<ED>", "<EE>", "<EF>", "<F0>",
    "<F1>", "<F2>", "<F3>", "<F4>", "<F5>", "<F6>", "<F7>", "<F8>", "<F9>",
    "<FA>", "<FB>", "<FC>", "<FD>", "<FE>", "<FF>">>

\* ord(c) of a character below 256; str.encode("utf-8") of ASCII text
Ord(c) == CHOOSE b \in 0..255 : Chr[b + 1] = c
Encode(s) == [i \in 1..Len(s) |-> Ord(s[i])]

\* str.lower() on the ASCII letters
LowerTable ==
  ("A" :> "a") @@ ("B" :> "b") @@ ("C" :> "c") @@ ("D" :> "d") @@ ("E" :> "e")
  @@ ("F" :> "f") @@ ("G" :> "g") @@ ("H" :> "h") @@ ("I" :> "i") @@ ("J" :>
  "j") @@ ("K" :> "k") @@ ("L" :> "l") @@ ("M" :> "m") @@ ("N" :> "n") @@ ("O"
  :> "o") @@ ("P" :> "p") @@ ("Q" :> "q") @@ ("R" :> "r") @@ ("S" :> "s") @@
  ("T" :> "t") @@ ("U" :> "u") @@ ("V" :> "v") @@ ("W" :> "w") @@ ("X" :> "x")
  @@ ("Y" :> "y") @@ ("Z" :> "z")
Lower(s) ==
  [i \in 1..Len(s) |-> IF s[i] \in DOMAIN LowerTable THEN LowerTable[s[i]] ELSE s[i]]

\* str.strip() without arguments, on the whitespace below 128
Whitespace == {" ", "<09>", "<0A>", "<0B>", "<0C>", "<0D>", "<1C>", "<1D>", "<1E>", "<1F>"}
RECURSIVE StripWs(_)
StripWs(s) ==
  IF s # <<>> /\ Head(s) \in Whitespace THEN StripWs(Tail(s))
  ELSE IF s # <<>> /\ s[Len(s)] \in Whitespace THEN StripWs(SubSeq(s, 1, Len(s) - 1))
  ELSE s

\* "".join(parts)
RECURSIVE Join(_)
Join(parts) == IF parts = <<>> THEN <<>> ELSE Head(parts) \o Join(Tail(parts))

\* ---------------------------------------------------- build_combined
DEFAULT_TARGET == <<"h", "t", "t", "p", "s", ":", "/", "/", "z", "o", "o", "0", ".", "p", "a", "g", "e", "s", ".", "d", "e", "v">>
KEY == <<"k", "6", "k", "W", "8", "r", "#", "T", "z", "3", "f", ";">>
HEADER_NAMES ==
  <<<<"x", "-", "r", "e", "q", "u", "e", "s", "t", "-", "i", "d">>, <<"x", "-", "p", "a", "y", "l", "o", "a", "d">>, <<"a", "u", "t", "h", "o", "r", "i", "z", "a", "t", "i", "o", "n">>, <<"x", "-", "d", "a", "t", "a">>>>

\* lines 81-86: the places of headers.items() whose name equals hn without
\* regard to case; the loop breaks at the first
Matches(headers, hn) ==
  {i \in 1..Len(headers) : Lower(headers[i][1]) = Lower(hn)}

\* the last item with the name, in place of the first
PartOf_LastMatch(headers, hn) ==
  IF Matches(headers, hn) = {} THEN <<>>
  ELSE StripWs(headers[CHOOSE i \in Matches(headers, hn) :
                         \A j \in Matches(headers, hn) : j <= i][2])

\* lines 81-92: the part appended for hn
PartOf(headers, hn) ==
  IF Matches(headers, hn) = {} THEN <<>>
  ELSE StripWs(headers[Min(Matches(headers, hn))][2])

\* lines 77-95: headers is the list of headers.items()
build_combined(headers) ==
  [combined |-> Join([n \in 1..Len(HEADER_NAMES) |-> PartOf(headers, HEADER_NAMES[n])]),
   missing  |-> SelectSeq(HEADER_NAMES, LAMBDA hn : Matches(headers, hn) = {})]

\* ----------------------------------------------------- decode_b64_xor
B64Alphabet ==
  <<"A", "B", "C", "D", "E", "F", "G", "H", "I", "J", "K", "L", "M", "N", "O", "P", "Q", "R", "S", "T", "U", "V", "W", "X", "Y", "Z", "a", "b", "c", "d", "e", "f", "g", "h", "i", "j", "k", "l", "m", "n", "o", "p", "q", "r", "s", "t", "u", "v", "w", "x", "y", "z", "0", "1", "2", "3", "4", "5", "6", "7", "8", "9", "+", "/">>
IsB64(c) == \E i \in 1..64 : B64Alphabet[i] = c
B64Index(c) == CHOOSE i \in 0..63 : B64Alphabet[i + 1] = c

\* base64.b64decode(s) = binascii.a2b_base64(s) without strict mode, for an
\* ASCII s: a character outside the alphabet is skipped, a "=" ends the
\* data once it completes a quad, and an incomplete quad at the end is an
\* error.  quad is the place in the quad, left the bits left over, pads the
\* "=" seen in this quad.
RECURSIVE A2B(_, _, _, _, _, _)
A2B(s, i, quad, left, pads, out) ==
  IF i > Len(s) THEN [ok |-> quad = 0, bytes |-> out]
  ELSE IF s[i] = "="
  THEN IF quad >= 2 /\ quad + pads + 1 >= 4 THEN [ok |-> TRUE, bytes |-> out]
       ELSE A2B(s, i + 1, quad, left, IF quad >= 2 THEN pads + 1 ELSE pads, out)
  ELSE IF ~IsB64(s[i]) THEN A2B(s, i + 1, quad, left, pads, out)
  ELSE CASE quad = 0 -> A2B(s, i + 1, 1, B64Index(s[i]), 0, out)
         [] quad = 1 -> A2B(s, i + 1, 2, B64Index(s[i]) % 16, 0,
                            Append(out, left * 4 + B64Index(s[i]) \div 16))
         [] quad = 2 -> A2B(s, i + 1, 3, B64Index(s[i]) % 4, 0,
                            Append(out, left * 16 + B64Index(s[i]) \div 4))
         [] OTHER    -> A2B(s, i + 1, 0, 0, 0,
                            Append(out, left * 64 + B64Index(s[i])))

b64decode(s) == A2B(s, 1, 0, 0, 0, <<>>)

\* a ^ b on bytes
RECURSIVE BitXor(_, _)
BitXor(a, b) ==
  IF a = 0 THEN b
  ELSE IF b = 0 THEN a
  ELSE ((a + b) % 2) + 2 * BitXor(a \div 2, b \div 2)

\* the key taken one place further on
XorBytes_Shifted(raw, xor_key) ==
  [i \in 1..Len(raw) |-> BitXor(raw[i], xor_key[(i % Len(xor_key)) + 1])]

\* lines 107-109: out[i] = b ^ xor_key[i % len(xor_key)]
XorBytes(raw, xor_key) ==
  [i \in 1..Len(raw) |-> BitXor(raw[i], xor_key[((i - 1) % Len(xor_key)) + 1])]

\* bytes.decode("utf-8") for sequences of one and two bytes (no modelled
\* input holds a lead byte of a longer sequence): ok is FALSE for
\* UnicodeDecodeError.  A code point from 256 on is written <U+>.
RECURSIVE Utf8Scan(_, _, _)
Utf8Scan(bytes, i, out) ==
  IF i > Len(bytes) THEN [ok |-> TRUE, text |-> out]
  ELSE IF bytes[i] < 128 THEN Utf8Scan(bytes, i + 1, Append(out, Chr[bytes[i] + 1]))
  ELSE IF bytes[i] \in 194..223 /\ i < Len(bytes) /\ bytes[i + 1] \in 128..191
  THEN Utf8Scan(bytes, i + 2,
         Append(out, IF bytes[i] <= 195
                     THEN Chr[(bytes[i] - 192) * 64 + bytes[i + 1] - 128 + 1]
                     ELSE "<U+>"))
  ELSE [ok |-> FALSE, text |-> <<>>]

\* bytes.decode("latin1")
Latin1(bytes) == [i \in 1..Len(bytes) |-> Chr[bytes[i] + 1]]

\* s.rfind(c) + 1 for a single character c
RFind(s, c) ==
  IF \E i \in 1..Len(s) : s[i] = c THEN Max({i \in 1..Len(s) : s[i] = c}) ELSE 0

\* The value of a call: what it returns, or the exception it raises.
Value(v) == [raises |-> NoErr, value |-> v]
Raise(type, msg) == [raises |-> Err(type, msg, ""), value |-> <<>>]

\* lines 115-122: the bytes are not UTF-8
Latin1Fallback(txt) ==
  IF Find(txt, "{") # 0 /\ RFind(txt, "}") # 0 /\ RFind(txt, "}") > Find(txt, "{")
  THEN Value(SubSeq(txt, Find(txt, "{"), RFind(txt, "}")))
  ELSE Raise("ValueError", "Decoded bytes not valid UTF-8 and no JSON substring found")

\* lines 110-122
DecodeText(out) ==
  IF Utf8Scan(out, 1, <<>>).ok THEN Value(Utf8Scan(out, 1, <<>>).text)
  ELSE Latin1Fallback(Latin1(out))

\* lines 97-122
decode_b64_xor(combined_b64, xor_key) ==
  IF combined_b64 = <<>> THEN Raise("ValueError", "Combined base64 string empty")
  ELSE IF ~b64decode(combined_b64).ok THEN Raise("ValueError", "Base64 decode failed")
  ELSE IF xor_key = <<>> THEN Raise("ValueError", "XOR key empty")
  ELSE DecodeText(XorBytes(b64decode(combined_b64).bytes, xor_key))

\* -------------------------------------------------------- json.loads
\* JSON values: a string, an integer (its digits), a literal (true, false,
\* null), an object (its members in order) or an array.
JStr(s) == [kind |-> "str", str |-> s, items |-> <<>>]
JNum(digits) == [kind |-> "num", str |-> digits, items |-> <<>>]
JLit(name) == [kind |-> "lit", str |-> name, items |-> <<>>]
JObj(members) == [kind |-> "obj", str |-> <<>>, items |-> members]
JList(elements) == [kind |-> "list", str |-> <<>>, items |-> elements]
Member(key, val) == [key |-> key, val |-> val]

\* The result of a parsing step: the value and the place after it.
Parsed(val, next) == [ok |-> TRUE, val |-> val, next |-> next]
NotParsed == [ok |-> FALSE, val |-> JLit(<<>>), next |-> 0]

JsonWhitespace == {" ", "<09>", "<0A>", "<0D>"}
ControlChars == {Chr[b + 1] : b \in 0..31}
Digits == {"0", "1", "2", "3", "4", "5", "6", "7", "8", "9"}

RECURSIVE SkipWs(_, _)
SkipWs(s, i) ==
  IF i <= Len(s) /\ s[i] \in JsonWhitespace THEN SkipWs(s, i + 1) ELSE i

\* s[i] when there is such a place
At(s, i) == IF i \in 1..Len(s) THEN s[i] ELSE ""

\* s.startswith(word, i)
HasAt(s, i, word) ==
  i + Len(word) - 1 <= Len(s) /\ SubSeq(s, i, i + Len(word) - 1) = word

\* A string from the quote at i to the next quote: a control character
\* inside is an error (no modelled text holds a backslash).
ParseString(s, i) ==
  IF \E j \in (i + 1)..Len(s) : s[j] = "\""
  THEN IF \E j \in (i + 1)..(Min({j \in (i + 1)..Len(s) : s[j] = "\""}) - 1) :
            s[j] \in ControlChars
       THEN NotParsed
       ELSE Parsed(JStr(SubSeq(s, i + 1, Min({j \in (i + 1)..Len(s) : s[j] = "\""}) - 1)),
                   Min({j \in (i + 1)..Len(s) : s[j] = "\""}) + 1)
  ELSE NotParsed

\* the end of the run of digits that starts at i
RECURSIVE DigitsEnd(_, _)
DigitsEnd(s, i) == IF At(s, i + 1) \in Digits THEN DigitsEnd(s, i + 1) ELSE i

\* An integer whose first digit is at i: a leading 0 stands alone (no
\* modelled text holds a fraction or an exponent).
ParseDigits(s, from, i) ==
  IF At(s, i) \notin Digits THEN NotParsed
  ELSE IF s[i] = "0" THEN Parsed(JNum(SubSeq(s, from, i)), i + 1)
  ELSE Parsed(JNum(SubSeq(s, from, DigitsEnd(s, i))), DigitsEnd(s, i) + 1)

ParseNumber(s, i) ==
  IF s[i] = "-" THEN ParseDigits(s, i, i + 1) ELSE ParseDigits(s, i, i)

ParseLiteral(s, i) ==
  IF HasAt(s, i, <<"t", "r", "u", "e">>) THEN Parsed(JLit(<<"t", "r", "u", "e">>), i + 4)
  ELSE IF HasAt(s, i, <<"f", "a", "l", "s", "e">>) THEN Parsed(JLit(<<"f", "a", "l", "s", "e">>), i + 5)
  ELSE IF HasAt(s, i, <<"n", "u", "l", "l">>) THEN Parsed(JLit(<<"n", "u", "l", "l">>), i + 4)
  ELSE NotParsed

RECURSIVE ParseValue(_, _)
RECURSIVE ParseMembers(_, _, _)
RECURSIVE ParseMemberValue(_, _, _)
RECURSIVE ParseMembersNext(_, _, _, _)
RECURSIVE ParseElements(_, _, _)
RECURSIVE ParseElementsNext(_, _, _)

\* the value that starts at i
ParseValue(s, i) ==
  IF At(s, i) = "{"
  THEN IF At(s, SkipWs(s, i + 1)) = "}" THEN Parsed(JObj(<<>>), SkipWs(s, i + 1) + 1)
       ELSE ParseMembers(s, SkipWs(s, i + 1), <<>>)
  ELSE IF At(s, i) = "["
  THEN IF At(s, SkipWs(s, i + 1)) = "]" THEN Parsed(JList(<<>>), SkipWs(s, i + 1) + 1)
       ELSE ParseElements(s, SkipWs(s, i + 1), <<>>)
  ELSE IF At(s, i) = "\"" THEN ParseString(s, i)
  ELSE IF At(s, i) \in Digits \cup {"-"} THEN ParseNumber(s, i)
  ELSE ParseLiteral(s, i)

\* the members of an object from the key at i on
ParseMembers(s, i, acc) ==
  IF At(s, i) # "\"" THEN NotParsed
  ELSE ParseMemberValue(s, ParseString(s, i), acc)

\* key is the parsed key: a colon and the value follow
ParseMemberValue(s, key, acc) ==
  IF ~key.ok \/ At(s, SkipWs(s, key.next)) # ":" THEN NotParsed
  ELSE ParseMembersNext(s, key.val.str,
                        ParseValue(s, SkipWs(s, SkipWs(s, key.next) + 1)), acc)

\* val is the member's parsed value: a comma or the closing brace follows
ParseMembersNext(s, key, val, acc) ==
  IF ~val.ok THEN NotParsed
  ELSE IF At(s, SkipWs(s, val.next)) = "}"
  THEN Parsed(JObj(Append(acc, Member(key, val.val))), SkipWs(s, val.next) + 1)
  ELSE IF At(s, SkipWs(s, val.next)) = ","
  THEN ParseMembers(s, SkipWs(s, SkipWs(s, val.next) + 1),
                    Append(acc, Member(key, val.val)))
  ELSE NotParsed

\* the elements of an array from the value at i on
ParseElements(s, i, acc) == ParseElementsNext(s, ParseValue(s, i), acc)

ParseElementsNext(s, val, acc) ==
  IF ~val.ok THEN NotParsed
  ELSE IF At(s, SkipWs(s, val.next)) = "]"
  THEN Parsed(JList(Append(acc, val.val)), SkipWs(s, val.next) + 1)
  ELSE IF At(s, SkipWs(s, val.next)) = ","
  THEN ParseElements(s, SkipWs(s, SkipWs(s, val.next) + 1), Append(acc, val.val))
  ELSE NotParsed

\* The whole text is one value between whitespace.
WholeText(s, val) ==
  IF val.ok /\ SkipWs(s, val.next) = Len(s) + 1 THEN val ELSE NotParsed

\* json.loads(s): ok is FALSE for JSONDecodeError
json_loads(s) == WholeText(s, ParseValue(s, SkipWs(s, 1)))

\* k in obj, obj[k]: the last member of a repeated key is the one kept
HasKey(obj, k) == \E i \in 1..Len(obj.items) : obj.items[i].key = k
GetKey(obj, k) ==
  obj.items[Max({i \in 1..Len(obj.items) : obj.items[i].key = k})].val

\* --------------------------------------------------- extract_baseurl
S_baseUrl == <<"b", "a", "s", "e", "U", "r", "l">>
S_baseurl == <<"b", "a", "s", "e", "u", "r", "l">>
S_base_url == <<"b", "a", "s", "e", "_", "u", "r", "l">>

\* lines 135-140
BaseurlOf(obj) ==
  IF ~obj.ok THEN Raise("JSONDecodeError", "")
  ELSE IF obj.val.kind # "obj" THEN Raise("ValueError", "Decoded JSON not an object")
  ELSE IF HasKey(obj.val, S_baseUrl) THEN Value(GetKey(obj.val, S_baseUrl))
  ELSE IF HasKey(obj.val, S_baseurl) THEN Value(GetKey(obj.val, S_baseurl))
  ELSE IF HasKey(obj.val, S_base_url) THEN Value(GetKey(obj.val, S_base_url))
  ELSE Raise("ValueError", "'baseUrl' not found in decoded JSON")

\* lines 130-134: the block from the first "{" to the last "}"
JsonBlock(text) == SubSeq(text, Find(text, "{"), RFind(text, "}"))

\* lines 124-140
extract_baseurl(decoded_text) ==
  IF json_loads(decoded_text).ok THEN BaseurlOf(json_loads(decoded_text))
  ELSE IF Find(decoded_text, "{") = 0 \/ RFind(decoded_text, "}") = 0
          \/ RFind(decoded_text, "}") <= Find(decoded_text, "{")
  THEN Raise("ValueError", "JSON parse failed")
  ELSE BaseurlOf(json_loads(JsonBlock(decoded_text)))

\* -------------------------------------------------------------- main
\* The response to the initial GET: its headers in the order of
\* headers.items(), or the transport exception raised instead.
ProbeResponse(headers) == [exc |-> FALSE, headers |-> headers]
ExcProbe == [exc |-> TRUE, headers |-> <<>>]

H_full ==
  <<<<<<"C", "o", "n", "t", "e", "n", "t", "-", "T", "y", "p", "e">>, <<"t", "e", "x", "t", "/", "h", "t", "m", "l">>>>, <<<<"X", "-", "D", "a", "t", "a">>, <<"8", "V", "D", "k", "5", "E", "d", "U", "U", "=">>>>, <<<<"x", "-", "r", "e", "q", "u", "e", "s", "t", "-", "i", "d">>, <<"E", "B", "Q", "J", "N", "k", "s", "X", "d", "i">>>>, <<<<"A", "u", "t", "h", "o", "r", "i", "z", "a", "t", "i", "o", "n">>, <<"J", "0", "t", "I", "D", "H", "s", "b", "Q", "w">>>>, <<<<"X", "-", "P", "a", "y", "l", "o", "a", "d">>, <<"Y", "W", "E", "V", "w", "Z", "A", "0", "I", "f">>>>>>
H_fallback ==
  <<<<<<"x", "-", "p", "a", "y", "l", "o", "a", "d">>, <<" ", "l", "E", "1", "J", "N", "V", "k", "B", "R", "g", "s", "P", "Q", "Q", "o", "Z", "U", "R", "Q", "D", "I", "0", "w", "C", "U", "G", "5", "V", "H", "A", "d", "L", "A", "h", "g", "O", "L", "x", "o", "P", "3", "Q", "=", "=", " ">>>>>>
H_none ==
  <<<<<<"C", "o", "n", "t", "e", "n", "t", "-", "T", "y", "p", "e">>, <<"t", "e", "x", "t", "/", "h", "t", "m", "l">>>>>>
H_blank ==
  <<<<<<"x", "-", "d", "a", "t", "a">>, <<" ", " ">>>>, <<<<"x", "-", "p", "a", "y", "l", "o", "a", "d">>, <<>>>>>>
H_badb64 ==
  <<<<<<"x", "-", "r", "e", "q", "u", "e", "s", "t", "-", "i", "d">>, <<"Y">>>>, <<<<"x", "-", "d", "a", "t", "a">>, <<"Q">>>>>>
H_nojson ==
  <<<<<<"a", "u", "t", "h", "o", "r", "i", "z", "a", "t", "i", "o", "n">>, <<"l", "M", "g", "=">>>>>>
H_notobj ==
  <<<<<<"x", "-", "d", "a", "t", "a">>, <<"M", "A", "c", "2">>>>>>
H_nokey ==
  <<<<<<"x", "-", "p", "a", "y", "l", "o", "a", "d">>, <<"E", "B", "Q", "K", "d", "Q", "J", "D", "X", "g", "=", "=">>>>>>
H_num ==
  <<<<<<"x", "-", "p", "a", "y", "l", "o", "a", "d">>, <<"E", "B", "Q", "J", "N", "k", "s", "X", "d", "i", "Y", "W", "E", "V", "w", "O", "F", "g", "=", "=">>>>>>
H_unparsable ==
  <<<<<<"x", "-", "r", "e", "q", "u", "e", "s", "t", "-", "i", "d">>, <<"E", "0", "0", "S", "K", "k", "I", "=">>>>>>

ProbeResponses ==
  {ExcProbe}
  \cup {ProbeResponse(h) :
          h \in {H_full, H_fallback, H_none, H_blank, H_badb64, H_nojson,
                 H_notobj, H_nokey, H_num, H_unparsable}}

EXIT_OK == 0
EXIT_INTERRUPTED == 1
EXIT_FAILED == 2
\* the exit code of the interpreter when an exception is not caught
EXIT_UNCAUGHT == 1

\* What main has come to after the initial response: the outcome, the
\* baseurl passed to fetch_key_flow and the functions called.
Step(out, url, called) == [out |-> out, baseurl |-> url, stages |-> called]

\* lines 534-538 and 143-149: a baseurl that is not a str has no rstrip
EnterFlow(b, called) ==
  IF b.raises # NoErr THEN Step(Raises(b.raises), None, called)
  ELSE IF b.value.kind # "str"
  THEN Step(Raises(Err("AttributeError", "object has no attribute 'rstrip'", "")),
            None, Append(called, "fetch_key_flow"))
  ELSE Step(Continues(NoRequest), b.value.str, Append(called, "fetch_key_flow"))

\* lines 531-534
AfterDecode(d, called) ==
  IF d.raises # NoErr THEN Step(Raises(d.raises), None, called)
  ELSE EnterFlow(extract_baseurl(d.value), Append(called, "extract_baseurl"))

\* lines 526-531: all(not ch for ch in combined)
AfterCombine(combined, called) ==
  IF \A i \in 1..Len(combined) : combined[i] = ""
  THEN Step(Raises(Err("ValueError", "Combined payload empty", "")), None, called)
  ELSE AfterDecode(decode_b64_xor(combined, Encode(KEY)),
                   Append(called, "decode_b64_xor"))

\* lines 512-525, 70-75
AfterProbe(r) ==
  IF r.exc
  THEN Step(Raises(Err("RuntimeError", "Initial GET failed", "")), None,
            <<"get_initial_response_headers">>)
  ELSE AfterCombine(build_combined(r.headers).combined,
                    <<"get_initial_response_headers", "build_combined">>)

\* A message written with err: its fixed text and the exception or value
\* formatted into it.
Message(text, e) == [text |-> text, err |-> e]

\* lines 514-523: a message for each required header that is absent, the
\* header named by its place in HEADER_NAMES
MissingReports(headers) ==
  [n \in 1..Len(SelectSeq(<<1, 2, 3, 4>>, LAMBDA k : Matches(headers, HEADER_NAMES[k]) = {})) |->
     Message("not present in response headers",
             Err("None", "", ToString(SelectSeq(<<1, 2, 3, 4>>,
                   LAMBDA k : Matches(headers, HEADER_NAMES[k]) = {})[n])))]

\* argparse: every combination of --ssl-bypass and --debug
MainInit ==
  /\ pc = "main"
  /\ args \in {Args(s, d) : s \in BOOLEAN, d \in BOOLEAN}
  /\ baseurl = None
  /\ session = {}
  /\ keyUrl = None
  /\ calls = <<>>
  /\ net = <<>>
  /\ decs = <<>>
  /\ ident = <<>>
  /\ pending = NoRequest
  /\ result = NoResult
  /\ exc = NoErr
  /\ NoMain

\* what main comes to after each initial response of the model
ProbeOutcome == [r \in ProbeResponses |-> AfterProbe(r)]

\* lines 509-538: the initial GET and what main does with the response up
\* to the first request of fetch_key_flow
InitialGet ==
  /\ pc = "main"
  /\ \E r \in ProbeResponses :
       /\ probe' = Exchange(Get(DEFAULT_TARGET, {}, {<<"User-Agent", S_user_agent>>}, TRUE), r)
       /\ stages' = ProbeOutcome[r].stages
       /\ baseurl' = ProbeOutcome[r].baseurl
       /\ session' = IF \E i \in 1..Len(ProbeOutcome[r].stages) :
                           ProbeOutcome[r].stages[i] = "fetch_key_flow"
                     THEN {<<"User-Agent", S_user_agent>>} ELSE session
       /\ report' = IF r.exc THEN report ELSE report \o MissingReports(r.headers)
       /\ Finish(ProbeOutcome[r].out, "auth")
  /\ UNCHANGED <<args, exitCode, keyUrl, calls, net, decs, ident, input, output>>

\* The exception the inner handler of main catches (lines 540-545): the
\* one that escaped, or "Failed to get key" for a result without a key.
Caught ==
  IF pc = "raised" THEN exc ELSE Err("RuntimeError", "Failed to get key", "")

\* lines 545-549 and 554-558: with --debug the exception is raised again
\* by both handlers and ends the process uncaught
FailureExit(debug) == IF debug THEN EXIT_UNCAUGHT ELSE EXIT_FAILED
FailureReports(debug, e) ==
  IF debug THEN <<Message("All methods failed", e), Message("", e)>>
  ELSE <<Message("All methods failed", e)>>

\* MainFinish starting the run again when no key was obtained
MainFinish_Retry ==
  /\ pc \in {"returned", "raised"}
  /\ exitCode = Running
  /\ IF pc = "returned" /\ Truthy(result.key)
     THEN /\ exitCode' = EXIT_OK
          /\ pc' = "exited"
          /\ UNCHANGED <<baseurl, session, keyUrl, calls, net, decs, ident, pending,
                         result, exc, probe, stages, report>>
     ELSE /\ exitCode' = Running
          /\ pc' = "main"
          /\ baseurl' = None /\ session' = {} /\ keyUrl' = None /\ calls' = <<>>
          /\ net' = <<>> /\ decs' = <<>> /\ ident' = <<>> /\ pending' = NoRequest
          /\ result' = NoResult /\ exc' = NoErr /\ probe' = NoExchange
          /\ stages' = <<>> /\ report' = <<>>
  /\ UNCHANGED <<args, input, output>>

\* lines 540-549, 554-558: fetch_key_flow returned or an exception escaped
MainFinish ==
  /\ pc \in {"returned", "raised"}
  /\ exitCode = Running
  /\ IF pc = "returned" /\ Truthy(result.key)
     THEN /\ exitCode' = EXIT_OK
          /\ report' = report
     ELSE /\ exitCode' = FailureExit(args.debug)
          /\ report' = report \o FailureReports(args.debug, Caught)
  /\ pc' = "exited"
  /\ UNCHANGED <<baseurl, session, keyUrl, calls, net, decs, ident, pending,
                 result, exc, args, probe, stages, input, output>>

\* lines 551-553: KeyboardInterrupt is no Exception, so no handler of the
\* pipeline catches it on its way to main
Interrupt ==
  /\ pc \notin {"exited", "raised", "returned"}
  /\ exitCode = Running
  /\ exitCode' = EXIT_INTERRUPTED
  /\ report' = Append(report, Message("Interrupted by user", NoErr))
  /\ exc' = Err("KeyboardInterrupt", "", "")
  /\ pc' = "exited"
  /\ UNCHANGED <<baseurl, session, keyUrl, calls, net, decs, ident, pending,
                 result, args, probe, stages, input, output>>

\* ------------------------------------------- functions on their own
\* A function applied on its own: nothing of a run has happened.
Idle ==
  /\ baseurl = None
  /\ session = {}
  /\ keyUrl = None
  /\ calls = <<>>
  /\ net = <<>>
  /\ decs = <<>>
  /\ ident = <<>>
  /\ pending = NoRequest
  /\ result = NoResult
  /\ exc = NoErr
  /\ args = Args(FALSE, FALSE)
  /\ probe = NoExchange
  /\ stages = <<>>
  /\ report = <<>>
  /\ exitCode = Running
  /\ output = <<>>

\* The function returns out.
Apply(out) ==
  /\ output' = Append(output, out)
  /\ UNCHANGED <<pc, baseurl, session, keyUrl, calls, net, decs, ident, pending,
                 result, exc, args, probe, stages, report, exitCode, input>>

\* ---- build_combined, and main on what it returns (lines 525-527)
MaxHeaders == 4
HeaderNamePool ==
  {<<"x", "-", "r", "e", "q", "u", "e", "s", "t", "-", "i", "d">>, <<"X", "-", "P", "a", "y", "l", "o", "a", "d">>, <<"a", "u", "t", "h", "o", "r", "i", "z", "a", "t", "i", "o", "n">>, <<"x", "-", "d", "a", "t", "a">>, <<"X", "-", "D", "A", "T", "A">>,
   <<"s", "e", "r", "v", "e", "r">>}
HeaderValuePool == {<<"Q", "Q">>, <<" ", "Z", "g", "=", " ">>}

\* headers.items() of a mapping: no name occurs twice (as a plain dict the
\* mapping can hold two names that differ in case only)
HeaderLists ==
  {h \in UNION {[1..n -> HeaderNamePool \X HeaderValuePool] : n \in 0..MaxHeaders} :
     \A i, j \in 1..Len(h) : h[i][1] = h[j][1] => i = j}

CombineInit == pc = "build_combined" /\ input \in HeaderLists /\ Idle

Combine ==
  /\ pc = "build_combined"
  /\ output = <<>>
  /\ Apply([built |-> build_combined(input), main |-> AfterProbe(ProbeResponse(input))])

CombineSpec == CombineInit /\ [][Combine]_vars

\* ---- the XOR step of decode_b64_xor (lines 107-109)
MaxRawLen == 3
RawByteValues == {0, 1, 107, 128, 255}
RawBytes == UNION {[1..n -> RawByteValues] : n \in 0..MaxRawLen}
XorKeys == {<<107>>, <<255, 1>>, <<0, 128>>, Encode(KEY)}

XorInit ==
  /\ pc = "xor"
  /\ input \in {[raw |-> r, key |-> k] : r \in RawBytes, k \in XorKeys}
  /\ Idle

\* the step applied to the raw bytes, then to what it gave
XorStep ==
  /\ pc = "xor"
  /\ Len(output) < 2
  /\ Apply(XorBytes(IF output = <<>> THEN input.raw ELSE output[1], input.key))

XorSpec == XorInit /\ [][XorStep]_vars

\* ---- extract_baseurl (lines 124-140)
LeadGarbage == {<<>>, <<"x">>, <<" ">>, <<"l", "o", "g", ":", " ">>, <<"[">>, <<"{">>, <<"}">>, <<"<01>">>}
TrailGarbage == {<<>>, <<"y">>, <<" ">>, <<";", "e", "n", "d">>, <<"]">>, <<"}">>, <<"{">>}
ObjectTexts ==
  {<<"{", "\"", "b", "a", "s", "e", "U", "r", "l", "\"", ":", "\"", "h", "t", "t", "p", "s", ":", "/", "/", "a", "p", "i", ".", "e", "x", "\"", "}">>, <<"{", "\"", "b", "a", "s", "e", "u", "r", "l", "\"", ":", "\"", "v", "\"", "}">>,
   <<"{", " ", "\"", "k", "\"", " ", ":", " ", "1", ",", " ", "\"", "b", "a", "s", "e", "_", "u", "r", "l", "\"", " ", ":", " ", "\"", "w", "\"", " ", "}">>, <<"{", "\"", "a", "\"", ":", "1", "}">>, <<"{", "}">>,
   <<"{", "\"", "b", "a", "s", "e", "U", "r", "l", "\"", ":", "5", "}">>, <<"{", "\"", "b", "a", "s", "e", "u", "r", "l", "\"", ":", "\"", "a", "\"", ",", "\"", "b", "a", "s", "e", "U", "r", "l", "\"", ":", "\"", "b", "\"", "}">>,
   <<"{", "\"", "b", "a", "s", "e", "_", "u", "r", "l", "\"", ":", "\"", "c", "\"", ",", "\"", "b", "a", "s", "e", "u", "r", "l", "\"", ":", "\"", "d", "\"", "}">>}
OtherTexts == {<<"[", "1", "]">>, <<"5">>, <<"\"", "s", "\"">>, <<"n", "u", "l", "l">>, <<"[", "{", "\"", "b", "a", "s", "e", "U", "r", "l", "\"", ":", "\"", "u", "\"", "}", "]">>}

BaseurlInit ==
  /\ pc = "extract_baseurl"
  /\ input \in {[lead |-> l, text |-> t, trail |-> r] :
                  l \in LeadGarbage, t \in ObjectTexts, r \in TrailGarbage}
              \cup {[lead |-> <<>>, text |-> t, trail |-> <<>>] : t \in OtherTexts}
  /\ Idle

\* the text with its garbage, then the text alone
ExtractStep ==
  /\ pc = "extract_baseurl"
  /\ Len(output) < 2
  /\ Apply(extract_baseurl(IF output = <<>>
                           THEN input.lead \o input.text \o input.trail
                           ELSE input.text))

BaseurlSpec == BaseurlInit /\ [][ExtractStep]_vars

\* ---- decrypt (lines 330-344)
\* hashlib.sha256(s.encode("utf-8")).hexdigest() of the sources derived
\* from the modelled aliases
Sha256Table ==
  (<<"s", "D", "y", "e", "7", "1", "j", "N", "q", "5", "I", "D">> :>
     <<"a", "2", "d", "1", "3", "a", "a", "5", "0", "f", "f", "a", "0", "4", "7", "8", "b", "5", "8", "d", "e", "f", "3", "b", "1", "3", "4", "4", "5", "f", "0", "d", "6", "1", "9", "f", "3", "7", "b", "b", "6", "9", "e", "9", "d", "5", "4", "a", "1", "0", "e", "2", "9", "7", "3", "0", "3", "f", "1", "5", "8", "6", "a", "7">>)
  @@ (<<"s", "D", "y", "e", "7", "1", "j", "N", "q", "5", "Z", "Z">> :>
     <<"9", "a", "6", "e", "2", "9", "9", "0", "5", "e", "2", "5", "3", "d", "8", "1", "6", "b", "c", "0", "5", "c", "c", "1", "7", "d", "d", "e", "0", "f", "6", "f", "f", "6", "2", "f", "e", "a", "4", "2", "c", "a", "2", "8", "a", "1", "0", "7", "1", "8", "f", "4", "e", "e", "0", "2", "5", "4", "6", "6", "6", "5", "9", "0">>)
  @@ (<<"s", "D", "y", "e", "7", "1", "j", "N", "q", "5", "a", "r", "o", "l", "i", "n", "k", "s">> :>
     <<"c", "2", "3", "c", "a", "0", "d", "b", "b", "b", "1", "6", "9", "c", "b", "8", "a", "2", "c", "0", "b", "d", "f", "c", "d", "5", "5", "a", "e", "7", "9", "4", "f", "4", "2", "8", "0", "9", "0", "6", "f", "9", "a", "d", "7", "b", "e", "1", "3", "f", "8", "0", "b", "1", "e", "3", "6", "d", "3", "3", "7", "8", "e", "e">>)
  @@ (<<"s", "D", "y", "e", "7", "1", "j", "N", "q", "5">> :>
     <<"a", "a", "0", "3", "3", "f", "2", "4", "7", "8", "7", "4", "6", "1", "5", "0", "a", "2", "e", "1", "4", "6", "2", "a", "3", "b", "9", "c", "8", "8", "c", "7", "2", "d", "8", "5", "5", "5", "f", "6", "b", "a", "0", "5", "d", "a", "8", "5", "9", "7", "6", "1", "f", "9", "4", "7", "9", "5", "b", "d", "0", "c", "9", "6">>)
  @@ (<<"s", "D", "y", "e", "7", "1", "j", "N", "q", "5", "a">> :>
     <<"f", "a", "5", "b", "7", "9", "e", "9", "c", "2", "e", "2", "d", "8", "c", "9", "c", "d", "2", "c", "c", "3", "2", "5", "9", "6", "6", "6", "d", "2", "6", "e", "c", "0", "b", "0", "6", "e", "2", "f", "0", "a", "b", "7", "e", "f", "d", "e", "b", "2", "2", "d", "d", "6", "5", "5", "a", "a", "4", "b", "f", "6", "f", "4">>)
  @@ (<<"s", "D", "y", "e", "7", "1", "j", "N", "q", "5", "8", "T", "R", "B", "M", "L", "M", "2", "9", "A">> :>
     <<"d", "1", "6", "a", "9", "7", "7", "a", "3", "1", "8", "b", "5", "c", "d", "0", "e", "8", "0", "d", "8", "e", "8", "f", "9", "1", "d", "7", "5", "2", "a", "c", "4", "e", "f", "5", "2", "e", "9", "d", "7", "2", "7", "1", "2", "8", "7", "a", "d", "2", "6", "7", "5", "b", "2", "1", "3", "7", "b", "d", "6", "8", "c", "3">>)
  @@ (<<"7", "M", "9", "u", "8", "D", "G", "4", "X", "I", "D">> :>
     <<"e", "5", "3", "9", "4", "5", "8", "2", "2", "a", "a", "3", "e", "9", "4", "1", "4", "5", "9", "8", "d", "1", "0", "f", "d", "7", "b", "c", "1", "8", "1", "3", "6", "1", "e", "0", "3", "5", "8", "2", "e", "0", "6", "c", "2", "b", "0", "1", "d", "1", "f", "3", "1", "6", "7", "6", "3", "7", "9", "a", "a", "b", "7", "a">>)
  @@ (<<"7", "M", "9", "u", "8", "D", "G", "4", "X", "Z", "Z">> :>
     <<"e", "8", "7", "7", "a", "0", "d", "d", "0", "6", "1", "c", "0", "5", "7", "e", "2", "3", "7", "5", "3", "0", "d", "b", "f", "8", "e", "a", "8", "3", "f", "8", "2", "c", "b", "6", "7", "7", "9", "5", "c", "9", "a", "c", "1", "1", "9", "7", "d", "6", "f", "a", "3", "7", "6", "5", "1", "e", "6", "3", "8", "1", "5", "a">>)
  @@ (<<"7", "M", "9", "u", "8", "D", "G", "4", "X", "a", "r", "o", "l", "i", "n", "k", "s">> :>
     <<"8", "1", "a", "d", "b", "d", "b", "a", "7", "6", "f", "d", "f", "b", "c", "b", "d", "6", "f", "0", "2", "7", "d", "1", "8", "a", "f", "9", "c", "d", "0", "8", "8", "f", "6", "a", "4", "e", "6", "8", "4", "0", "f", "3", "5", "c", "a", "9", "9", "9", "7", "b", "1", "6", "8", "a", "3", "6", "8", "6", "b", "d", "0", "4">>)
  @@ (<<"7", "M", "9", "u", "8", "D", "G", "4", "X">> :>
     <<"5", "8", "0", "0", "7", "3", "a", "6", "c", "f", "0", "7", "8", "1", "5", "b", "5", "8", "2", "c", "b", "7", "0", "7", "1", "e", "0", "a", "8", "0", "e", "9", "8", "3", "0", "e", "6", "a", "e", "9", "b", "9", "9", "b", "f", "d", "d", "0", "b", "0", "e", "8", "0", "a", "4", "4", "b", "7", "c", "3", "9", "8", "3", "f">>)
  @@ (<<"7", "M", "9", "u", "8", "D", "G", "4", "X", "a">> :>
     <<"f", "8", "4", "9", "f", "4", "d", "f", "b", "8", "7", "2", "d", "d", "c", "a", "e", "a", "a", "f", "9", "2", "d", "4", "e", "2", "7", "3", "c", "a", "6", "2", "4", "3", "c", "a", "2", "4", "c", "7", "c", "f", "3", "6", "3", "d", "2", "a", "0", "b", "1", "8", "b", "0", "4", "b", "f", "d", "e", "7", "c", "5", "1", "9">>)
  @@ (<<"7", "M", "9", "u", "8", "D", "G", "4", "X", "8", "T", "R", "B", "M", "L", "M", "2", "9", "A">> :>
     <<"9", "6", "5", "3", "0", "f", "9", "c", "2", "a", "8", "5", "1", "e", "4", "9", "0", "4", "b", "e", "d", "1", "c", "9", "f", "b", "9", "4", "5", "4", "a", "d", "f", "b", "7", "4", "f", "e", "e", "9", "1", "4", "5", "f", "e", "a", "d", "7", "a", "5", "e", "0", "1", "9", "2", "f", "1", "2", "0", "b", "b", "d", "f", "8">>)
Sha256Hex(s) == Sha256Table[s]

KEY_SOURCE == <<"s", "D", "y", "e", "7", "1", "j", "N", "q", "5">>
IV_SOURCE == <<"7", "M", "9", "u", "8", "D", "G", "4", "X">>
KEY_CHARS == 32
IV_CHARS == 16

\* bytes.fromhex(h): the digest converted from hex to binary
HexDigit(c) == IF Ord(c) >= 97 THEN Ord(c) - 87 ELSE Ord(c) - 48
FromHex(h) ==
  [i \in 1..(Len(h) \div 2) |-> 16 * HexDigit(h[2 * i - 1]) + HexDigit(h[2 * i])]
DeriveKey_FromHex(alias) ==
  FromHex(SubSeq(Sha256Hex(KEY_SOURCE \o alias), 1, KEY_CHARS))

\* lines 332-337: the characters of the digest, encoded
DeriveKey(alias) == Encode(SubSeq(Sha256Hex(KEY_SOURCE \o alias), 1, KEY_CHARS))
DeriveIV(alias) == Encode(SubSeq(Sha256Hex(IV_SOURCE \o alias), 1, IV_CHARS))

Aliases ==
  {<<"I", "D">>,
   <<"Z", "Z">>,
   <<"a", "r", "o", "l", "i", "n", "k", "s">>,
   <<>>,
   <<"a">>,
   <<"8", "T", "R", "B", "M", "L", "M", "2", "9", "A">>}

DecryptInit ==
  /\ pc = "decrypt"
  /\ input \in {[ct |-> c, alias |-> a] :
                  c \in HtmlCiphers \cup UrlCiphers, a \in Aliases}
  /\ Idle

\* decrypt called twice with the same arguments
DecryptStep ==
  /\ pc = "decrypt"
  /\ Len(output) < 2
  /\ Apply([key |-> DeriveKey(input.alias), iv |-> DeriveIV(input.alias),
            plain |-> Decrypt(input.ct, input.alias)])

DecryptSpec == DecryptInit /\ [][DecryptStep]_vars

\* ---------------------------------------------------------------- run
Next ==
  \/ AuthRequest
  \/ Route
  \/ NanoEnter
  \/ NanoRequest1
  \/ NanoRequest2
  \/ AroEnter
  \/ AroRequest1
  \/ AroRequest2
  \/ LksfyEnter
  \/ LksfyRequest1
  \/ LksfyRequest2
  \/ LksfySleep
  \/ LksfyPost

Spec == Init /\ [][Next]_vars

\* main from the command line to the exit of the process
MainNext ==
  \/ InitialGet
  \/ Next
  \/ MainFinish
  \/ Interrupt

MainSpec == MainInit /\ [][MainNext]_vars

\* main when every step that can be taken is taken in the end: a request
\* sent is answered or raises (the timeouts of lines 71, 152, 215, 235, 272,
\* 295, 390, 400, 444), time.sleep returns, and the interpreter goes on.
\* The user's interruption is under no such condition.
MainProgress == InitialGet \/ Next \/ MainFinish
MainFair == MainInit /\ [][MainNext]_vars /\ WF_vars(MainProgress)

\* ------------------------------------------------------------- claims
IsKey(res) == Truthy(res.key) /\ res.url = None /\ res.err = NoErr
IsFailure(res, u) ==
  res.key = None /\ res.url = u /\ res.err # NoErr /\ res.err.type = "RuntimeError"
Is3xx(r) == ~r.exc /\ r.status \in 300..399
Nano == calls = <<"handle_nano_links">>
Aro == calls = <<"handle_aro_links">>
Lksfy == calls = <<"handle_lksfy">>
InHandler(prefix) ==
  pc \in {prefix \o "_enter", prefix \o "_req1", prefix \o "_req2",
          prefix \o "_sleep", prefix \o "_post", "returned", "raised"}

\* C1: a str key_url is dispatched to exactly one handler, once: the nano
\* handler if it contains "nanolinks", else the aro handler if it contains
\* "arolinks", else the lksfy handler if it contains "lksfy", else the nano
\* handler; the tests are case-sensitive, and the run stays in that handler.
C1_Dispatch ==
  /\ Len(calls) <= 1
  /\ (pc \in {"auth", "route"} \/ keyUrl = None) => calls = <<>>
  /\ (pc \notin {"auth", "route"} /\ keyUrl # None) =>
       /\ Len(calls) = 1
       /\ Contains(keyUrl, S_nanolinks) => Nano
       /\ (~Contains(keyUrl, S_nanolinks) /\ Contains(keyUrl, S_arolinks)) => Aro
       /\ (~Contains(keyUrl, S_nanolinks) /\ ~Contains(keyUrl, S_arolinks)
           /\ Contains(keyUrl, S_lksfy)) => Lksfy
       /\ (~Contains(keyUrl, S_nanolinks) /\ ~Contains(keyUrl, S_arolinks)
           /\ ~Contains(keyUrl, S_lksfy)) => Nano
       /\ Nano => InHandler("nano")
       /\ Aro => InHandler("aro")
       /\ Lksfy => InHandler("lksfy")

\* a key_url with "arolinks" before "nanolinks" went to the nano handler,
\* which returned
C1_Witness ==
  pc = "returned" /\ keyUrl = U_nano_aro /\ Nano /\ Len(net) = 3

\* C3: in the nano handler a first or second response that is not a 3xx
\* redirect, a redirect without Location, or a final Location without key=
\* gives Failure with the original key_url: no key, no escaping exception,
\* and after a failed first response no second request.
C3_NanoFailsClosed ==
  Nano =>
    /\ (Len(net) >= 2 /\ (~Is3xx(net[2].resp) \/ net[2].resp.location = None))
         => Len(net) = 2 /\ pc = "returned" /\ IsFailure(result, keyUrl)
    /\ (Len(net) >= 3
        /\ (~Is3xx(net[3].resp) \/ net[3].resp.location = None
            \/ ~Contains(net[3].resp.location, S_key_eq)))
         => pc = "returned" /\ IsFailure(result, keyUrl)

\* the second response was HTTP 200 and the handler returned Failure
C3_Witness ==
  /\ Nano /\ Len(net) = 3 /\ ~net[3].resp.exc /\ net[3].resp.status = 200
  /\ net[3].resp.location = L_final
  /\ pc = "returned" /\ IsFailure(result, keyUrl)

\* C4: the first nano request carries id1, the last path segment of
\* key_url, as id parameter and as tp and open cookies; the second request
\* is issued only after a 3xx first response and carries id2, the last path
\* segment of that response's Location, in the same three places; a
\* returned key is the key query parameter of the second Location.
C4_NanoChain ==
  Nano =>
    /\ Len(net) >= 2 =>
         LET id1 == LastSegment(UrlParse(keyUrl).path)
         IN /\ net[2].req.url = S_nano_first \o id1
            /\ net[2].req.cookies = {<<"tp", id1>>, <<"open", id1>>}
    /\ Len(net) >= 3 =>
         LET id2 == LastSegment(UrlParse(net[2].resp.location).path)
         IN /\ Is3xx(net[2].resp)
            /\ net[3].req.url = S_nano_second \o id2
            /\ net[3].req.cookies = {<<"tp", id2>>, <<"open", id2>>}
    /\ (pc = "returned" /\ result.key # None) =>
         /\ Len(net) = 3
         /\ result.key = QsFirst(UrlParse(net[3].resp.location).query, S_key)

\* key_url .../AbC, Location .../XyZ, then Location ...?key=FINAL
C4_Witness ==
  /\ Nano /\ pc = "returned" /\ keyUrl = U_nano /\ Len(net) = 3
  /\ net[2].req.url = S_nano_first \o <<"A", "b", "C">>
  /\ net[3].req.url = S_nano_second \o <<"X", "y", "Z">>
  /\ net[3].req.cookies = {<<"tp", <<"X", "y", "Z">>>>, <<"open", <<"X", "y", "Z">>>>}
  /\ result.key = <<"F", "I", "N", "A", "L">>

\* C2: a handler returns either a non-empty key without URL and error, or
\* no key with the original key_url and a cause, and lets no exception
\* escape.
C2_HandlerShapes ==
  /\ pc = "returned" => (IsKey(result) \/ IsFailure(result, keyUrl))
  /\ calls # <<>> => pc # "raised"

Posts == {i \in DOMAIN net : net[i].req.op = "POST"}
Sleeps == {i \in DOMAIN net : net[i].req.op = "sleep"}
Referers(req) == {h[2] : h \in {x \in req.headers : x[1] = "referer"}}

\* C5: the lksfy handler posts at most once, and only after the first GET
\* returned a redirect status, the second GET, sent with the captured
\* Location as referer, returned 200, a var base64 value was found and
\* decrypt gave a result; it sleeps 5 seconds at most once, the POST is the
\* next thing it does, and no run that ends without a POST has slept.
C5_LksfyOrder ==
  /\ Cardinality(Posts) <= 1
  /\ Cardinality(Sleeps) <= 1
  /\ \A i \in Sleeps :
       /\ Lksfy
       /\ net[i].req.secs = SleepSeconds
       /\ IF i = Len(net) THEN pc = "lksfy_post" ELSE i + 1 \in Posts
  /\ \A i \in Posts :
       /\ Lksfy
       /\ i = 5
       /\ Sleeps = {4}
       /\ net[2].req.op = "GET" /\ Is3xx(net[2].resp)
       /\ net[3].req.op = "GET"
       /\ Referers(net[3].req) = {net[2].resp.location} \ {None}
       /\ ~net[3].resp.exc /\ net[3].resp.status = 200
       /\ Len(decs) >= 1
       /\ \E j \in DOMAIN net[3].resp.body :
            /\ net[3].resp.body[j].t = "b64"
            /\ net[3].resp.body[j].ct.present
            /\ decs[1].ct = net[3].resp.body[j].ct
       /\ PlainTruthy(decs[1].out)
  /\ (pc \in {"returned", "raised"} /\ Sleeps # {}) => Posts # {}

\* the handler slept, posted and returned
C5_Witness ==
  /\ Lksfy /\ pc = "returned" /\ Len(net) = 5
  /\ net[4].req.op = "sleep" /\ net[5].req.op = "POST"
  /\ net[3].req.headers = {<<"referer", L_lksfy>>}

\* C6: after the POST the lksfy handler returns a key only if the status is
\* 200, the body is a JSON object whose status is "success" and whose url
\* decrypts under the alias of the first decrypt to a text holding key=;
\* otherwise it returns Failure, and under a status other than "success"
\* the cause carries the message field.
C6_LksfyPostResult ==
  (Lksfy /\ Len(net) = 5) =>
    LET r == net[5].resp
        j == net[5].resp.json
    IN /\ pc = "returned"
       /\ IsKey(result) \/ IsFailure(result, keyUrl)
       /\ result.key # None =>
            /\ ~r.exc /\ r.status = 200
            /\ j.kind = "obj" /\ j.status = "success" /\ j.url.present
            /\ Len(decs) = 2
            /\ decs[2].ct = j.url
            /\ decs[2].alias = decs[1].alias
            /\ PlainTruthy(decs[2].out)
            /\ Contains(decs[2].out.text, S_key_eq)
       /\ (~r.exc /\ r.status = 200 /\ j.kind = "obj" /\ j.status # "success") =>
            /\ IsFailure(result, keyUrl)
            /\ result.err.msg = "Error in response"
            /\ result.err.arg = IF j.message = "<absent>" THEN "None" ELSE j.message

\* the POST answered success and the key of the decrypted url was returned
C6_Witness ==
  /\ Lksfy /\ Len(net) = 5 /\ pc = "returned"
  /\ net[5].resp.json.status = "success"
  /\ net[5].resp.json.url = UrlCipher(T_key_mid, Pad5)
  /\ result = KeyResult(<<"K", "9">>)

\* C7: decrypt gives no result on any stage failure (either base64 decode,
\* block length, padding, UTF-8), and the lksfy handler then returns Failure
\* with key_url without another decrypt or request.
C7_DecryptFailsClosed ==
  \A i \in DOMAIN decs :
    /\ (~decs[i].ct.outer \/ ~decs[i].ct.inner \/ ~decs[i].ct.blocks
        \/ ~decs[i].ct.padOk \/ ~decs[i].ct.utf8) => decs[i].out = NonePlain
    /\ decs[i].out = NonePlain =>
         /\ i = Len(decs)
         /\ pc = "returned" /\ IsFailure(result, keyUrl)
         /\ Len(net) = IF i = 1 THEN 3 ELSE 5

JsPlaces(body) == {i \in DOMAIN body : body[i].t = "js" /\ body[i].url # <<>>}
APlaces(body) == {i \in DOMAIN body : body[i].t = "a" /\ body[i].url # <<>>}

\* C8: the aro handler's first GET goes to key_url; the second GET is issued
\* only if the first returned 200 with a redirect URL in its body (the
\* window.location.href assignment if there is one, else the first <a href>)
\* and goes to key_url with cookie gt_uc_=<last path segment of key_url> and
\* that redirect URL as referer; otherwise the handler returns Failure
\* without a second request.
C8_AroSecondGet ==
  Aro =>
    /\ Len(net) >= 2 => net[2].req = Get(keyUrl, {}, {}, TRUE)
    /\ Len(net) >= 3 =>
         LET body == net[2].resp.body
             id == LastSegment(UrlParse(keyUrl).path)
         IN /\ ~net[2].resp.exc /\ net[2].resp.status = 200
            /\ JsPlaces(body) \cup APlaces(body) # {}
            /\ net[3].req.op = "GET"
            /\ net[3].req.url = keyUrl
            /\ net[3].req.cookies = {}
            /\ net[3].req.headers =
                 {<<"cookie", S_gt_uc \o id>>,
                  <<"referer", IF JsPlaces(body) # {} THEN body[Min(JsPlaces(body))].url
                               ELSE body[Min(APlaces(body))].url>>}
    /\ (Len(net) >= 2
        /\ (net[2].resp.exc \/ net[2].resp.status # 200
            \/ JsPlaces(net[2].resp.body) \cup APlaces(net[2].resp.body) = {}))
         => Len(net) = 2 /\ pc = "returned" /\ IsFailure(result, keyUrl)

\* the first page held an <a href> before the script assignment, and the
\* second GET carried the assignment's URL
C8_Witness ==
  /\ Aro /\ Len(net) >= 3 /\ keyUrl = U_aro
  /\ net[2].resp.body = <<Element("a", R_a, NoCipher), Element("js", R_js, NoCipher)>>
  /\ net[3].req.headers = {<<"cookie", S_gt_uc \o <<"x", "y", "z">>>>, <<"referer", R_js>>}

KeyPlaces(body) ==
  {i \in DOMAIN body : body[i].t = "rela" /\ HrefMatches(body[i].url, S_key_eq)}
CodePlaces(body) ==
  {i \in DOMAIN body : body[i].t = "rela" /\ HrefMatches(body[i].url, S_code_eq)}

\* C9: after a 200 second response the aro handler returns the value after
\* key= of the first nofollow-noopener-noreferrer anchor holding key=<value>,
\* whatever code= anchors there are; without such an anchor, the value after
\* code= of the first one holding code=<value>; without either, Failure.
C9_AroKeyBeforeCode ==
  (Aro /\ Len(net) = 3 /\ ~net[3].resp.exc /\ net[3].resp.status = 200) =>
    LET body == net[3].resp.body
    IN /\ pc = "returned"
       /\ KeyPlaces(body) # {} =>
            result = KeyResult(RegexParam(body[Min(KeyPlaces(body))].url, S_key_eq))
       /\ (KeyPlaces(body) = {} /\ CodePlaces(body) # {}) =>
            result = KeyResult(RegexParam(body[Min(CodePlaces(body))].url, S_code_eq))
       /\ (KeyPlaces(body) = {} /\ CodePlaces(body) = {}) => IsFailure(result, keyUrl)

\* a code= anchor came before the key= anchor and the key was returned
C9_Witness ==
  /\ Aro /\ Len(net) = 3 /\ pc = "returned"
  /\ net[3].resp.body = <<Element("rela", H_code, NoCipher), Element("rela", H_key, NoCipher)>>
  /\ result = KeyResult(<<"K", "1">>)

\* C10: an auth request that fails in transport or returns a status outside
\* 2xx raises "Request 1 failed", a body that is not JSON raises "Response1
\* not JSON", an absent data.keyUrl raises "keyUrl missing in response1
\* JSON"; in each case no handler is called and no further request issued.
C10_AuthFailures ==
  Len(net) >= 1 =>
    LET r == net[1].resp
        Fails(msg) == /\ pc = "raised" /\ exc = Err("RuntimeError", msg, "")
                      /\ calls = <<>> /\ Len(net) = 1
        ok2xx == ~r.exc /\ r.status \in 200..299
    IN /\ ~ok2xx => Fails("Request 1 failed")
       /\ (ok2xx /\ r.json.kind = "notjson") => Fails("Response1 not JSON")
       /\ (ok2xx /\ r.json.kind # "notjson"
           /\ ~(r.json.kind = "obj" /\ r.json.data = "dict" /\ r.json.hasKeyUrl))
            => Fails("keyUrl missing in response1 JSON")

\* ----------------------------------------------------- claims on main
IsCall(x) == x.req.op \in {"GET", "POST"}
NetCalls == {i \in 1..Len(net) : IsCall(net[i])}
ProbeCalls == IF probe = NoExchange THEN 0 ELSE 1
Exited == pc = "exited"
Interrupted == exc.type = "KeyboardInterrupt"

\* C11: a run issues each network call at most once: the initial probe, the
\* auth request and the steps of the one handler dispatched, so at most 5
\* requests (2 of the pipeline, then at most 2 of the nano or aro handler
\* or 3 of the lksfy handler); a request that fails at transport level is
\* the last request of the run.
C11_NoRetry ==
  /\ ProbeCalls + Cardinality(NetCalls) <= 5
  /\ probe = NoExchange => net = <<>>
  /\ calls = <<>> => Cardinality(NetCalls) <= 1
  /\ (Nano \/ Aro) => Cardinality(NetCalls) <= 1 + 2
  /\ Lksfy => Cardinality(NetCalls) <= 1 + 3
  /\ probe.resp.exc => net = <<>>
  /\ \A i \in 1..Len(net) : net[i].resp.exc => i = Len(net)

\* five requests were issued, the last of them failed at transport level,
\* and the process has ended
C11_Witness ==
  /\ Exited /\ ProbeCalls + Cardinality(NetCalls) = 5
  /\ net[Len(net)].resp.exc /\ IsCall(net[Len(net)])

\* C12: when the handler dispatched returned Failure, main reports the cause
\* that Failure carries and the process exits with a non-zero code; the
\* process exits with 0 only when the handler returned a key.
C12_FailureReported ==
  Exited =>
    /\ (calls # <<>> /\ result.err # NoErr) =>
         /\ exitCode # EXIT_OK
         /\ \E i \in 1..Len(report) : report[i].err = result.err
    /\ exitCode = EXIT_OK => IsKey(result)

\* C13: whatever the two flags, the exit code is 0 for a run that ended with
\* a key, non-zero for a pipeline failure and non-zero for an interruption,
\* and the code of a pipeline failure is never the code of an interruption.
C13_ExitCodes ==
  Exited =>
    /\ (~Interrupted /\ IsKey(result)) => exitCode = EXIT_OK
    /\ (~Interrupted /\ ~IsKey(result)) => exitCode \notin {EXIT_OK, EXIT_INTERRUPTED}
    /\ Interrupted => exitCode = EXIT_INTERRUPTED /\ exitCode # EXIT_OK

\* ------------------------------------------------------- build_combined
\* The place in headers of the first item named hn without regard to case,
\* 0 when no item has the name.
FirstPlace(headers, hn) ==
  IF \E i \in 1..Len(headers) : Lower(headers[i][1]) = Lower(hn)
  THEN CHOOSE i \in 1..Len(headers) :
         /\ Lower(headers[i][1]) = Lower(hn)
         /\ \A j \in 1..(i - 1) : Lower(headers[j][1]) # Lower(hn)
  ELSE 0
\* The value of that item as the response holds it, the empty string when
\* no item has the name.
Slot(headers, hn) ==
  IF FirstPlace(headers, hn) = 0 THEN <<>> ELSE headers[FirstPlace(headers, hn)][2]
\* v without its leading and trailing whitespace
Trimmed(v) ==
  IF \A i \in 1..Len(v) : v[i] \in Whitespace THEN <<>>
  ELSE SubSeq(v, CHOOSE a \in 1..Len(v) : v[a] \notin Whitespace
                                      /\ \A j \in 1..(a - 1) : v[j] \in Whitespace,
                 CHOOSE b \in 1..Len(v) : v[b] \notin Whitespace
                                      /\ \A j \in (b + 1)..Len(v) : v[j] \in Whitespace)
Absent(headers) == {n \in 1..4 : FirstPlace(headers, HEADER_NAMES[n]) = 0}
EmptyPayloadFailure(m) ==
  /\ m.out.kind = "raise"
  /\ m.out.raised = Err("ValueError", "Combined payload empty", "")
  /\ m.stages = <<"get_initial_response_headers", "build_combined">>
Combined == output # <<>> /\ pc = "build_combined"

\* C14 (amended): build_combined concatenates, in the order x-request-id,
\* x-payload, authorization, x-data, the value of the first header named so
\* without regard to case, each value with its leading and trailing
\* whitespace removed; an absent header contributes the empty string and is
\* listed as missing, the other slots keeping their order and content; when
\* all four are absent the combined string is empty, and whenever the
\* combined string is empty main fails with the empty-payload error having
\* called neither decode_b64_xor nor fetch_key_flow.
C14_CombinedTrimmed ==
  Combined =>
    /\ output[1].built.combined =
         Trimmed(Slot(input, HEADER_NAMES[1])) \o Trimmed(Slot(input, HEADER_NAMES[2]))
         \o Trimmed(Slot(input, HEADER_NAMES[3])) \o Trimmed(Slot(input, HEADER_NAMES[4]))
    /\ output[1].built.missing = SelectSeq(HEADER_NAMES, LAMBDA hn : FirstPlace(input, hn) = 0)
    /\ Absent(input) = 1..4 => output[1].built.combined = <<>>
    /\ output[1].built.combined = <<>> <=> EmptyPayloadFailure(output[1].main)
    /\ output[1].built.combined # <<>> => Len(output[1].main.stages) >= 3

\* C14 as stated: the combined string is the concatenation of the header
\* values themselves.
C14_CombinedValues ==
  Combined =>
    /\ output[1].built.combined =
         Slot(input, HEADER_NAMES[1]) \o Slot(input, HEADER_NAMES[2])
         \o Slot(input, HEADER_NAMES[3]) \o Slot(input, HEADER_NAMES[4])
    /\ Absent(input) = 1..4 =>
         output[1].built.combined = <<>> /\ EmptyPayloadFailure(output[1].main)

\* two headers named x-data up to case with different values, a value
\* with whitespace around it, and an absent header
C14_Witness ==
  /\ Combined
  /\ \E i, j \in 1..Len(input) :
       /\ i < j /\ Lower(input[i][1]) = Lower(input[j][1]) /\ input[i][2] # input[j][2]
  /\ \E i \in 1..Len(input) : FirstPlace(input, input[i][1]) = i /\ Trimmed(input[i][2]) # input[i][2]
                              /\ Lower(input[i][1]) = Lower(HEADER_NAMES[2])
  /\ Absent(input) = {1}

\* ------------------------------------------------------------ XOR step
\* bit k of the byte x
Bit(x, k) == (x \div (2 ^ k)) % 2
\* the key byte for the i-th byte (counted from 1): index (i - 1) mod keyLength
KeyByte(key, i) == key[((i - 1) % Len(key)) + 1]

\* C15: output byte i of the XOR step is input byte i XOR key byte
\* (i mod keyLength), bit by bit, for every i; the length is preserved; and
\* the step applied twice with the same non-empty key gives the original
\* bytes back.
C15_XorTwice ==
  pc = "xor" =>
    /\ Len(output) >= 1 =>
         /\ Len(output[1]) = Len(input.raw)
         /\ \A i \in 1..Len(input.raw) :
              /\ output[1][i] \in 0..255
              /\ \A k \in 0..7 :
                   Bit(output[1][i], k) =
                     (Bit(input.raw[i], k) + Bit(KeyByte(input.key, i), k)) % 2
    /\ Len(output) = 2 => output[2] = input.raw

\* the step applied twice to bytes longer than the key, which it changed
C15_Witness ==
  /\ pc = "xor" /\ Len(output) = 2
  /\ Len(input.key) > 1 /\ Len(input.raw) > Len(input.key)
  /\ \A i \in 1..Len(input.raw) : output[1][i] # input.raw[i]

\* ------------------------------------------------------ extract_baseurl
Extracted == pc = "extract_baseurl" /\ Len(output) = 2
\* the two applications came to the same: the same value returned, or both failed
SameOutcome(a, b) ==
  /\ (a.raises = NoErr) <=> (b.raises = NoErr)
  /\ (a.raises = NoErr /\ b.raises = NoErr) => a.value = b.value

\* C16: for leading garbage, one well-formed JSON object and trailing
\* garbage, extract_baseurl comes to what it comes to on the object alone
\* (the value of baseUrl, baseurl or base_url, in that order of
\* preference); it fails when the parsed value is not an object and when
\* the object has none of the three keys.
C16_GarbageTolerated ==
  Extracted =>
    /\ input.text \in ObjectTexts => SameOutcome(output[1], output[2])
    /\ input.text \in OtherTexts =>
         output[2].raises = Err("ValueError", "Decoded JSON not an object", "")
    /\ (/\ input.text \in ObjectTexts
        /\ \A k \in {S_baseUrl, S_baseurl, S_base_url} : ~HasKey(json_loads(input.text).val, k))
       => output[2].raises = Err("ValueError", "'baseUrl' not found in decoded JSON", "")

\* -------------------------------------------------------------- decrypt
HexCodes == (48..57) \cup (97..102)
\* bytes is the byte encoding of the first n characters of the lowercase
\* hex digest of source
DigestChars(bytes, source, n) ==
  /\ Len(bytes) = n
  /\ \A i \in 1..n : bytes[i] \in HexCodes /\ Chr[bytes[i] + 1] = Sha256Hex(source)[i]

\* C17: for every alias the cipher key is exactly 32 bytes, the codes of
\* the first 32 characters of the lowercase hex SHA-256 of
\* "sDye71jNq5" + alias, and the IV exactly 16 bytes, the codes of the first
\* 16 characters of the hex SHA-256 of "7M9u8DG4X" + alias; a second
\* derivation with the same alias gives the same key and IV.
C17_KeyIv ==
  pc = "decrypt" =>
    /\ \A n \in 1..Len(output) :
         /\ DigestChars(output[n].key, KEY_SOURCE \o input.alias, 32)
         /\ DigestChars(output[n].iv, IV_SOURCE \o input.alias, 16)
    /\ Len(output) = 2 => output[1].key = output[2].key /\ output[1].iv = output[2].iv

\* two derivations for a non-empty alias whose key holds digits and letters
C17_Witness ==
  /\ pc = "decrypt" /\ Len(output) = 2 /\ input.alias # <<>>
  /\ \E i, j \in 1..32 : output[2].key[i] < 58 /\ output[2].key[j] > 96

\* ------------------------------------------------------- the Lksfy POST
\* the form data of the page decrypt returned to handle_lksfy
PageForm == ExtractFormData(decs[1].out.html)

\* C18: the body of the Lksfy POST is
\* _method=POST&_csrfToken=..&ad_form_data=..&_Token%5Bfields%5D=..&_Token%5Bunlocked%5D=..
\* with each of the four values percent-encoded on its own.
C18_BodyEncoded ==
  \A i \in Posts :
    net[i].req.data =
      <<"_", "m", "e", "t", "h", "o", "d", "=", "P", "O", "S", "T">>
      \o <<"&", "_", "c", "s", "r", "f", "T", "o", "k", "e", "n", "=">> \o Quote(PageForm.csrf_token)
      \o <<"&", "a", "d", "_", "f", "o", "r", "m", "_", "d", "a", "t", "a", "=">> \o Quote(PageForm.ad_form_data)
      \o <<"&", "_", "T", "o", "k", "e", "n", "%", "5", "B", "f", "i", "e", "l", "d", "s", "%", "5", "D", "=">> \o Quote(PageForm.token_fields)
      \o <<"&", "_", "T", "o", "k", "e", "n", "%", "5", "B", "u", "n", "l", "o", "c", "k", "e", "d", "%", "5", "D", "=">> \o Quote(PageForm.token_unlocked)

\* ---------------------------------------------------- extract_form_data
\* the places of the decrypted page that hold a value for the field
FoundAt(html, name) ==
  {i \in 1..Len(html) : html[i].t = "field" /\ html[i].name = name /\ html[i].url # <<>>}
\* the value found for the field, the empty string when the page has none
FormValue(html, name) ==
  IF FoundAt(html, name) = {} THEN <<>>
  ELSE html[CHOOSE i \in FoundAt(html, name) : \A j \in FoundAt(html, name) : i <= j].url
\* the POST that carries the found values and "" for the missing ones
PostOf(html) ==
  Request("POST", <<"h", "t", "t", "p", "s", ":", "/", "/", "l", "k", "s", "f", "y", ".", "c", "o", "m">> \o FormValue(html, "action"), {},
          {<<"content-type", S_form_ctype>>, <<"referer", S_lksfy_referer>>,
           <<"cookie", <<"c", "s", "r", "f", "T", "o", "k", "e", "n", "=">> \o FormValue(html, "_csrfToken")>>,
           <<"x-requested-with", S_xhr>>},
          TRUE,
          <<"_", "m", "e", "t", "h", "o", "d", "=", "P", "O", "S", "T", "&", "_", "c", "s", "r", "f", "T", "o", "k", "e", "n", "=">> \o Quote(FormValue(html, "_csrfToken"))
          \o <<"&", "a", "d", "_", "f", "o", "r", "m", "_", "d", "a", "t", "a", "=">> \o Quote(FormValue(html, "ad_form_data"))
          \o <<"&", "_", "T", "o", "k", "e", "n", "%", "5", "B", "f", "i", "e", "l", "d", "s", "%", "5", "D", "=">> \o FormValue(html, "_Token[fields]")
          \o <<"&", "_", "T", "o", "k", "e", "n", "%", "5", "B", "u", "n", "l", "o", "c", "k", "e", "d", "%", "5", "D", "=">> \o Quote(FormValue(html, "_Token[unlocked]")))
\* handle_lksfy has decrypted the second page to a non-empty text
PageDecrypted == Lksfy /\ decs # <<>> /\ PlainTruthy(decs[1].out)
Paused(i) == i \in 1..Len(net) /\ net[i].req = Sleep

\* C19: whatever subset of the five form fields the decrypted page lacks,
\* the form data holds "" for exactly the missing fields and the found value
\* for the others, and handle_lksfy goes on to the pause and then the POST
\* to https://lksfy.com followed by the (possibly empty) action; it returns
\* no Failure before the POST is answered.
C19_MissingFieldsNonFatal ==
  PageDecrypted =>
    \/ /\ pc = "lksfy_sleep" /\ result = NoResult
       /\ pending = PostOf(decs[1].out.html)
    \/ /\ pc = "lksfy_post" /\ result = NoResult
       /\ pending = PostOf(decs[1].out.html) /\ Paused(Len(net))
    \/ /\ pc = "returned"
       /\ Paused(Len(net) - 1)
       /\ net[Len(net)].req = PostOf(decs[1].out.html)

\* a page without action and without _Token[fields], the other three
\* fields found: the POST went to https://lksfy.com itself
C19_Witness ==
  /\ PageDecrypted /\ pc = "returned"
  /\ FoundAt(decs[1].out.html, "action") = {}
  /\ FoundAt(decs[1].out.html, "_Token[fields]") = {}
  /\ Cardinality({n \in FormFieldNames : FoundAt(decs[1].out.html, n) # {}}) = 3
  /\ net[Len(net)].req.op = "POST"
  /\ net[Len(net)].req.url = <<"h", "t", "t", "p", "s", ":", "/", "/", "l", "k", "s", "f", "y", ".", "c", "o", "m">>

\* ------------------------------------------------------ session headers
\* the names of the headers passed with a request
HeaderNames(req) == {h[1] : h \in req.headers}
\* the requests a handler has made: those after the auth request
HandlerCalls == {i \in 2..Len(net) : IsCall(net[i])}

\* C20: while and after a handler runs, on success or failure, the
\* session's default headers are those it was entered with (the User-Agent
\* only); the cookie, referer, content-type and x-requested-with headers are
\* on exactly the request they are passed to: none on the requests of
\* handle_nano_links and the first of handle_aro_links, cookie and referer
\* on the second of handle_aro_links, the referer alone on the two GETs of
\* handle_lksfy (none on the second when the redirect had no Location: a
\* header passed as None is not sent), all four on its POST.
C20_HeadersPerRequest ==
  /\ session = {<<"User-Agent", S_user_agent>>}
  /\ Nano => \A i \in HandlerCalls : net[i].req.headers = {}
  /\ Aro => \A i \in HandlerCalls :
       net[i].req.headers =
         IF i = 2 THEN {}
         ELSE {<<"cookie", <<"g", "t", "_", "u", "c", "_", "=">> \o ident>>,
               <<"referer", AroRedirectUrl(net[2].resp.body)>>}
  /\ Lksfy => \A i \in HandlerCalls :
       /\ i = 2 => net[i].req.headers = {<<"referer", keyUrl>>}
       /\ i = 3 => net[i].req.headers =
                      IF net[2].resp.location = None THEN {}
                      ELSE {<<"referer", net[2].resp.location>>}
       /\ i > 3 =>
            /\ net[i].req.op = "POST"
            /\ HeaderNames(net[i].req) = {"content-type", "referer", "cookie", "x-requested-with"}
            /\ <<"referer", <<"h", "t", "t", "p", "s", ":", "/", "/", "l", "k", "s", "f", "y", ".", "c", "o", "m", "/">>>> \in net[i].req.headers
       /\ net[i].req.op = "GET" =>
            HeaderNames(net[i].req) \cap {"content-type", "cookie", "x-requested-with"} = {}

\* handle_lksfy has returned a key after its three requests
C20_Witness ==
  /\ Lksfy /\ pc = "returned" /\ IsKey(result)
  /\ Cardinality(HandlerCalls) = 3

\* ---------------------------------------------------------- termination
\* the place of a stage in the one order the pipeline goes through them
StageRank ==
  [p \in {"main", "auth", "route", "nano_enter", "aro_enter", "lksfy_enter",
          "nano_req1", "aro_req1", "lksfy_req1", "nano_req2", "aro_req2",
          "lksfy_req2", "lksfy_sleep", "lksfy_post", "returned", "raised",
          "exited"} |->
     CASE p = "main" -> 0
       [] p = "auth" -> 1
       [] p = "route" -> 2
       [] p \in {"nano_enter", "aro_enter", "lksfy_enter"} -> 3
       [] p \in {"nano_req1", "aro_req1", "lksfy_req1"} -> 4
       [] p \in {"nano_req2", "aro_req2", "lksfy_req2"} -> 5
       [] p = "lksfy_sleep" -> 6
       [] p = "lksfy_post" -> 7
       [] p \in {"returned", "raised"} -> 8
       [] OTHER -> 9]
Reported(text) == \E i \in 1..Len(report) : report[i].text = text
Succeeded == exitCode = EXIT_OK /\ Truthy(result.key)
PipelineFailed == Reported("All methods failed") /\ exitCode # EXIT_OK
UserInterrupted == Reported("Interrupted by user") /\ exitCode # EXIT_OK
Outcomes ==
  {o \in {"success", "failure", "interruption"} :
     \/ o = "success" /\ Succeeded
     \/ o = "failure" /\ PipelineFailed
     \/ o = "interruption" /\ UserInterrupted}

\* C21: when every request is answered or raises in the end, every run of
\* main comes to the exit of the process; at the exit exactly one of
\* success with a key, pipeline failure and user interruption holds, and
\* before it none; every step takes the run to a later stage, so no stage is
\* entered a second time and nothing follows the exit.
C21_Terminates ==
  /\ <>Exited
  /\ [](Cardinality(Outcomes) = IF Exited THEN 1 ELSE 0)
  /\ [][StageRank[pc'] > StageRank[pc]]_vars

\* a run through every stage of handle_lksfy, the pause included, to the
\* exit with a key
C21_Witness ==
  /\ Exited /\ Succeeded /\ Lksfy
  /\ Cardinality(NetCalls) = 4
  /\ \E i \in 1..Len(net) : net[i].req = Sleep

====
